---------------------------- MODULE Spec2Model ----------------------------
(***************************************************************************)
(* XCrawler / EventMonitor: the per-account pipeline of                    *)
(* EventMonitor.run_once (main.py), the three tables of DatabaseManager    *)
(* (src/database.py), the two-stage classifier of EventDetector            *)
(* (src/event_detector.py) and the upload retry / repository rotation      *)
(* routines of BackupManager and LogOnlyHFUploader.                        *)
(*                                                                         *)
(* A post (tweet dict) is identified by its id; its text is TextOf(id).    *)
(* A table is the sequence of its rows in insertion order.  The model      *)
(* does not rely on the primary-key constraint: uniqueness of ids is a     *)
(* consequence of the existence checks the code performs before inserting. *)
(***************************************************************************)
EXTENDS Integers, Sequences, FiniteSets, TLC

(***************************************************************************)
(* Bounds                                                                  *)
(***************************************************************************)
\* post ids are 1..MaxId
MaxId == 2
\* number of run_once passes of run_continuous that are explored
MaxPasses == 1
\* number of database operations that may raise SQLAlchemyError in a run
MaxDbFaults == 1
\* number of repository rotations explored in a run of the monitor
MaxRotations == 1

PostIds == 1..MaxId

(***************************************************************************)
(* Configuration: monitored_accounts.csv and config.yaml                   *)
(***************************************************************************)
\* one row of monitored_accounts.csv (main.py _load_monitored_accounts_from_csv)
Account(u, t, e) == [username |-> u, account_type |-> t, event_detection_enabled |-> e]

\* the account lists explored: log-only and normal accounts in both orders,
\* and a normal account with event detection switched off
AccountLists ==
  { << Account("alice", "", TRUE),  Account("bob", "", TRUE) >>,
    << Account("alice", "", TRUE),  Account("bob", "log", TRUE) >>,
    << Account("alice", "log", TRUE), Account("bob", "", TRUE) >>,
    << Account("alice", "", FALSE), Account("bob", "", TRUE) >> }

\* hydrus: disabled, enabled for every post (event_tweets_only = false),
\* or enabled for event posts only (event_tweets_only = true, the default)
HydrusModes == {"off", "all", "events"}

(***************************************************************************)
(* Post texts and the Stage-1 keyword lists (config event_detection)       *)
(***************************************************************************)
\* str.lower() on the words that occur in the modelled texts
Lower(w) ==
  CASE w = "C96"    -> "c96"
    [] w = "Bought" -> "bought"
    [] w = "Rate"   -> "rate"
    [] w = "Retry"  -> "retry"
    [] OTHER        -> w

\* the text of a post, as the set of its words
TextOf(id) ==
  CASE id % 4 = 1 -> {"new", "book", "at", "C96"}
    [] id % 4 = 2 -> {"see", "you", "at", "c96"}
    [] id % 4 = 3 -> {"good", "morning"}
    [] OTHER      -> {"Bought", "a", "book", "at", "c96"}

\* a post with media (tweet['media'] / tweet['videos'] hold URLs): every
\* post but the plain-text one
HasMedia(id) == id % 4 # 3

\* download_media_for_tweets, the download of the gallery-dl integration
\* of get_user_tweets: the local paths of the files of a post, one file,
\* named by the id, for a post with media; get_user_tweets puts them in
\* tweet['local_media']
DownloadedPaths(id) == IF HasMedia(id) THEN << id >> ELSE << >>

\* TwitterMonitor.download_tweet_images / download_tweet_videos
download_tweet_images(id) == << >>
download_tweet_videos(id) == << >>

\* step 2 of run_once: tweet['local_media'] = all_media_paths, the paths
\* returned by download_tweet_images followed by those returned by
\* download_tweet_videos
LocalMedia(id) == download_tweet_images(id) \o download_tweet_videos(id)

keywords == {"C96"}
exclude_keywords == {"bought"}

\* the configured model list (config['models']), in priority order
models == << "gpt-4o-mini", "gemini-1.5-flash" >>


(***************************************************************************)
(* Sequence helpers                                                        *)
(***************************************************************************)
Range(s) == { s[i] : i \in DOMAIN s }

\* a set of ids as a list, newest (greatest id) first: the order in which
\* get_user_tweets returns posts
RECURSIVE SortDesc(_)
SortDesc(S) ==
  IF S = {} THEN << >>
  ELSE LET m == CHOOSE x \in S : \A y \in S : y <= x
       IN  << m >> \o SortDesc(S \ {m})

(***************************************************************************)
(* DatabaseManager (src/database.py)                                       *)
(***************************************************************************)
\* rows of all_tweets, event_tweets and log_only_tweets
AllTweets(id, u)      == [id |-> id, username |-> u, checked_for_event |-> FALSE,
                          local_media |-> LocalMedia(id)]
EventTweet(id, u, c)  == [id |-> id, username |-> u, confidence_score |-> c, notified |-> FALSE]
LogOnlyTweet(id, u)   == [id |-> id, username |-> u, uploaded_to_hf |-> FALSE]

\* session.query(T.id).all()
IdsOf(table) == { table[i].id : i \in DOMAIN table }

\* filter_new_tweets / filter_log_only_tweets: the posts whose id is in no
\* row of the table, whatever the username; on SQLAlchemyError every post
\* is returned
filter_new_tweets(tweets, table, fault) ==
  IF fault THEN tweets
  ELSE SelectSeq(tweets, LAMBDA t : t \notin IdsOf(table))

\* a defective step 1 that filters whatever force_full_fetch says
Step1AlwaysFilters(tweets, table, force) == filter_new_tweets(tweets, table, FALSE)

\* step 1 of run_once for a normal account: new_tweets is tweets itself
\* with force_full_fetch, else filter_new_tweets(tweets, username)
Step1NewTweets(tweets, table, force) ==
  IF force THEN tweets ELSE filter_new_tweets(tweets, table, FALSE)

\* a defective save loop that inserts without looking for the id
SaveAllLoopAlwaysInserts(table, tweets, u) ==
  table \o [ i \in 1..Len(tweets) |-> AllTweets(tweets[i], u) ]

\* a defective existence check that looks at the most recent row only
AllTweetExistsLastRowOnly(table, id) ==
  Len(table) > 0 /\ table[Len(table)].id = id

\* the per-post existence check of save_all_tweets
AllTweetExists(table, id) == \E i \in DOMAIN table : table[i].id = id

\* the loop of save_all_tweets: insert-if-absent, row by row; the session
\* autoflushes, so a row added earlier in the same call is seen
RECURSIVE SaveAllLoop(_, _, _)
SaveAllLoop(table, tweets, u) ==
  IF tweets = << >> THEN table
  ELSE LET t == Head(tweets)
       IN  IF AllTweetExists(table, t)
           THEN SaveAllLoop(table, Tail(tweets), u)
           ELSE SaveAllLoop(Append(table, AllTweets(t, u)), Tail(tweets), u)

\* save_all_tweets: commit, or rollback of the whole call on SQLAlchemyError
save_all_tweets(table, tweets, u, fault) ==
  IF fault THEN table ELSE SaveAllLoop(table, tweets, u)

\* all_tweet.checked_for_event = True for the row with this id, if any
MarkChecked(table, id) ==
  [ i \in DOMAIN table |->
      IF table[i].id = id THEN [ table[i] EXCEPT !.checked_for_event = TRUE ]
      ELSE table[i] ]

\* the loop of save_event_tweets over the accepted posts ev (records with
\* id and confidence): insert-if-absent into event_tweets and, on insert,
\* flag the all_tweets row if there is one
RECURSIVE SaveEventLoop(_, _, _, _)
SaveEventLoop(events, alls, ev, u) ==
  IF ev = << >> THEN [events |-> events, alls |-> alls]
  ELSE LET t == Head(ev)
       IN  IF t.id \in IdsOf(events)
           THEN SaveEventLoop(events, alls, Tail(ev), u)
           ELSE SaveEventLoop(Append(events, EventTweet(t.id, u, t.confidence)),
                              MarkChecked(alls, t.id), Tail(ev), u)

\* save_event_tweets: commit, or rollback of both tables on SQLAlchemyError
save_event_tweets(events, alls, ev, u, fault) ==
  IF fault THEN [events |-> events, alls |-> alls]
  ELSE SaveEventLoop(events, alls, ev, u)

\* save_log_only_tweets
RECURSIVE SaveLogOnlyLoop(_, _, _)
SaveLogOnlyLoop(table, tweets, u) ==
  IF tweets = << >> THEN table
  ELSE LET t == Head(tweets)
       IN  IF t \in IdsOf(table)
           THEN SaveLogOnlyLoop(table, Tail(tweets), u)
           ELSE SaveLogOnlyLoop(Append(table, LogOnlyTweet(t, u)), Tail(tweets), u)

save_log_only_tweets(table, tweets, u, fault) ==
  IF fault THEN table ELSE SaveLogOnlyLoop(table, tweets, u)

\* update_log_only_tweet_hf_urls: sets uploaded_to_hf on the row, if any
update_log_only_tweet_hf_urls(table, id) ==
  [ i \in DOMAIN table |->
      IF table[i].id = id THEN [ table[i] EXCEPT !.uploaded_to_hf = TRUE ]
      ELSE table[i] ]

\* get_existing_tweet_ids: the ids stored in all_tweets under this
\* username; the empty set on SQLAlchemyError
get_existing_tweet_ids(table, u, fault) ==
  IF fault THEN {}
  ELSE { table[i].id : i \in { j \in DOMAIN table : table[j].username = u } }

(***************************************************************************)
(* TwitterMonitor (src/twitter_monitor.py): the walk over a timeline.      *)
(* A timeline (feed) is the sequence of post ids in the order in which     *)
(* api.user_tweets yields them; it holds original posts inside the         *)
(* days_lookback window (retweets and older posts are skipped by the       *)
(* walk).  tweet_date grows with the id.                                   *)
(***************************************************************************)
\* get_latest_tweet_id returns None: no row under this username
NoLatest == 0

\* get_latest_tweet_id(username): the id of the row of this username with
\* the greatest tweet_date
get_latest_tweet_id(table, u) ==
  LET ids == { table[i].id : i \in { j \in DOMAIN table : table[j].username = u } }
  IN  IF ids = {} THEN NoLatest
      ELSE CHOOSE x \in ids : \A y \in ids : y <= x

\* the post has a video attachment
HasVideos(id) == id % 4 = 1

\* the number of entries the quick check looks at
check_limit == 5

\* the quick check of _get_user_tweets_twscrape_internal, entry by entry:
\* "no_new" when it returns [] before the walk, "walk" when it falls
\* through to the full walk
RECURSIVE QuickCheckLoop(_, _, _)
QuickCheckLoop(feed, latest_tweet_id, total_fetched) ==
  IF feed = << >>
  THEN IF total_fetched > 0 THEN "walk" ELSE "no_new"
  ELSE IF Head(feed) <= latest_tweet_id THEN "no_new"
  ELSE IF total_fetched + 1 >= check_limit THEN "walk"
  ELSE QuickCheckLoop(Tail(feed), latest_tweet_id, total_fetched + 1)

\* the walk of get_user_tweets and of _get_user_tweets_twscrape_internal:
\* stop at the first known id unless force_full_fetch, skip the ids of
\* existing_tweet_ids; get_user_tweets (videos_only) also skips, under
\* force_full_fetch, the posts without a video
RECURSIVE WalkLoop(_, _, _, _, _)
WalkLoop(feed, latest_tweet_id, existing_tweet_ids, force, videos_only) ==
  IF feed = << >> THEN << >>
  ELSE LET t == Head(feed)
           rest == WalkLoop(Tail(feed), latest_tweet_id, existing_tweet_ids, force, videos_only)
       IN  IF ~force /\ latest_tweet_id # NoLatest /\ t <= latest_tweet_id THEN << >>
           ELSE IF t \in existing_tweet_ids THEN rest
           ELSE IF videos_only /\ force /\ ~HasVideos(t) THEN rest
           ELSE << t >> \o rest

\* unique_tweets: the first occurrence of every id
RECURSIVE UniqueLoop(_, _)
UniqueLoop(tweets, seen_ids) ==
  IF tweets = << >> THEN << >>
  ELSE IF Head(tweets) \in seen_ids THEN UniqueLoop(Tail(tweets), seen_ids)
  ELSE << Head(tweets) >> \o UniqueLoop(Tail(tweets), seen_ids \cup {Head(tweets)})

\* get_user_tweets(username, force_full_fetch) over a timeline, gallery-dl
\* integration switched off
GetUserTweets(feed, table, u, force) ==
  LET existing_tweet_ids == get_existing_tweet_ids(table, u, FALSE)
      latest_tweet_id == IF force THEN NoLatest ELSE get_latest_tweet_id(table, u)
  IN  [ walked |-> TRUE,
        tweets |-> UniqueLoop(WalkLoop(feed, latest_tweet_id, existing_tweet_ids, force, TRUE), {}) ]

\* _get_user_tweets_twscrape_internal, called by
\* get_user_tweets_with_gallery_dl_first with the latest id it read from
\* the database as latest_id_override
_get_user_tweets_twscrape_internal(feed, table, u, force) ==
  LET existing_tweet_ids == get_existing_tweet_ids(table, u, FALSE)
      latest_tweet_id == get_latest_tweet_id(table, u)
      check_for_new_tweets_only == ~force /\ latest_tweet_id # NoLatest
  IN  IF check_for_new_tweets_only /\ QuickCheckLoop(feed, latest_tweet_id, 0) = "no_new"
      THEN [ walked |-> FALSE, tweets |-> << >> ]
      ELSE [ walked |-> TRUE,
             tweets |-> UniqueLoop(WalkLoop(feed, latest_tweet_id, existing_tweet_ids, force, FALSE), {}) ]

\* the walk of _get_user_tweets_twscrape_internal, one iteration of
\* `while True` at a time.  Times are in units of 5 seconds
\* self._timeout_seconds (300 s), the timeout of one fetch (30 s), the
\* sleep before an individual retry (5 s) and the number of such retries
_timeout_seconds == 60
FetchTimeout == 6
RetrySleep == 1
MaxTweetRetries == 2

\* the handler of asyncio.TimeoutError: a retry with _rotate_account and a
\* sleep while _tweet_retry_count < 2, else the counter is reset; the loop
\* continues in both cases.  w holds elapsed, retry and fired
OnFetchTimeout(w) ==
  IF w.retry < MaxTweetRetries
  THEN [ w EXCEPT !.retry = @ + 1, !.elapsed = @ + RetrySleep ]
  ELSE [ w EXCEPT !.retry = 0 ]

\* one iteration in which the fetch times out after 30 seconds
WalkFetchTimesOut(w) ==
  OnFetchTimeout([ w EXCEPT !.elapsed = @ + FetchTimeout ])

\* one iteration in which the fetch returns a post after d: the overall
\* check raises TimeoutError inside the try block, where the handler of
\* asyncio.TimeoutError (when that is the same class) or the handler of
\* Exception catches it, and the loop continues; else the post is
\* processed and the retry counter reset
WalkFetchReturns(w, d, alias) ==
  LET w1 == [ w EXCEPT !.elapsed = @ + d ]
  IN  IF w1.elapsed > _timeout_seconds
      THEN LET w2 == [ w1 EXCEPT !.fired = @ + 1 ]
           IN  IF alias THEN OnFetchTimeout(w2) ELSE w2
      ELSE [ w1 EXCEPT !.retry = 0 ]

(***************************************************************************)
(* GalleryDLExtractor.download_media_for_tweets and the cookie rotator     *)
(***************************************************************************)
\* max_no_progress
max_no_progress == 10

\* GalleryDLCookieRotator.get_next_cookie: the cookie at current_index
\* (cookies are numbered from 1) and the index moved on; with no cookie
\* files, the default cookie (DefaultCookie) and the index unchanged
DefaultCookie == 99
get_next_cookie(cookies, index) ==
  IF cookies = 0 THEN [ cookie |-> DefaultCookie, index |-> index ]
  ELSE [ cookie |-> index + 1, index |-> (index + 1) % cookies ]

\* a defective bookkeeping that never counts an attempt without progress
AfterAttemptNeverCounts(d, collected) ==
  [ remaining |-> d.remaining \ collected,
    done |-> d.done \cup collected,
    no_progress |-> IF collected # {} THEN 0 ELSE d.no_progress ]

\* the bookkeeping after one attempt of the loop: collected are the ids
\* _collect_downloaded_files found new files for (after a normal end and
\* after TimeoutExpired alike; none after another exception)
AfterAttempt(d, collected) ==
  [ remaining |-> d.remaining \ collected,
    done |-> d.done \cup collected,
    no_progress |-> IF collected # {} THEN 0 ELSE d.no_progress + 1 ]

(***************************************************************************)
(* EventDetector (src/event_detector.py)                                   *)
(***************************************************************************)
\* what _analyze_with_llm returns for one model: None, or the parsed
\* result with is_event_related and confidence (in hundredths)
None == [none |-> TRUE]
LlmResults ==
  { [is_event_related |-> TRUE,  confidence |-> 60],
    [is_event_related |-> TRUE,  confidence |-> 59],
    [is_event_related |-> FALSE, confidence |-> 90] }
LlmAnswers == {None} \cup LlmResults

\* the fallback analysis_result when every model failed
KeywordOnlyResult ==
  [is_event_related |-> TRUE, confidence |-> 50]

\* the acceptance threshold, in hundredths
AcceptConfidence == 60

\* a defective keyword check that ignores the exclude keywords
KeywordCheckIncludeOnly(text) ==
  \E kw \in keywords : Lower(kw) \in { Lower(w) : w \in text }

\* _quick_keyword_check: no exclude keyword occurs in the lowercased text
\* and at least one include keyword does
_quick_keyword_check(text) ==
  LET text_lower == { Lower(w) : w \in text }
  IN  /\ \A kw \in exclude_keywords : Lower(kw) \notin text_lower
      /\ \E kw \in keywords : Lower(kw) \in text_lower

\* the model loop of detect_event_tweets: the first answer that is not
\* None, else the keyword-only fallback
RECURSIVE FirstAnswer(_, _)
FirstAnswer(answers, i) ==
  IF i > Len(answers) THEN None
  ELSE IF answers[i] # None THEN answers[i]
  ELSE FirstAnswer(answers, i + 1)

AnalysisResult(answers) ==
  IF FirstAnswer(answers, 1) = None THEN KeywordOnlyResult
  ELSE FirstAnswer(answers, 1)

\* a defective acceptance test that requires more than the threshold
AcceptedAboveThreshold(analysis_result) ==
  analysis_result.is_event_related /\ analysis_result.confidence > AcceptConfidence

\* the acceptance test of detect_event_tweets
Accepted(analysis_result) ==
  analysis_result.is_event_related /\ analysis_result.confidence >= AcceptConfidence

\* what the models answer for one post, one answer per configured model
ModelAnswers == [ 1..Len(models) -> LlmAnswers ]

\* detect_event_tweets(tweets): answers[i] is what the models answer for
\* tweets[i].  The result lists the accepted posts in input order, each
\* with the confidence of its event_analysis
RECURSIVE DetectLoop(_, _, _)
DetectLoop(tweets, answers, i) ==
  IF i > Len(tweets) THEN << >>
  ELSE LET tweet == tweets[i]
           rest  == DetectLoop(tweets, answers, i + 1)
       IN  IF ~_quick_keyword_check(TextOf(tweet)) THEN rest
           ELSE LET analysis_result == AnalysisResult(answers[i])
                IN  IF Accepted(analysis_result)
                    THEN << [id |-> tweet, confidence |-> analysis_result.confidence] >> \o rest
                    ELSE rest

detect_event_tweets(tweets, answers) == DetectLoop(tweets, answers, 1)

\* the throttle of the Gemini models: requests per model name and the
\* length of the quota period in seconds
GeminiLimit == 15
QuotaWindow == 60

\* _check_gemini_rate_limit(model_name) at time now; q holds
\* gemini_request_count[model_name] and gemini_quota_reset_time.  The
\* counts are cleared when a minute or more has passed since the last
\* reset; the call is refused when the count has reached the limit
_check_gemini_rate_limit(q, now) ==
  LET q1 == IF now - q.reset >= QuotaWindow THEN [ count |-> 0, reset |-> now ] ELSE q
      wait_time == QuotaWindow - (now - q1.reset)
  IN  [ q |-> q1, ok |-> ~(q1.count >= GeminiLimit /\ wait_time > 0) ]

\* what generate_content does: an answer, an exception that mentions 429
\* or quota, or another exception
GeminiOutcomes == {"answer", "quota", "error"}

\* the Gemini branch of _analyze_with_llm at time now: sent is the number
\* of requests issued to the provider, result is "None" when the method
\* returns None (detect_event_tweets then tries the next model)
AnalyzeWithGemini(q, now, outcome) ==
  LET c == _check_gemini_rate_limit(q, now)
  IN  IF ~c.ok THEN [ q |-> c.q, sent |-> 0, result |-> "None" ]
      ELSE CASE outcome = "answer" ->
                  [ q |-> [ c.q EXCEPT !.count = @ + 1 ], sent |-> 1, result |-> "answer" ]
             [] outcome = "quota" ->
                  [ q |-> [ c.q EXCEPT !.count = GeminiLimit ], sent |-> 1, result |-> "None" ]
             [] OTHER ->
                  [ q |-> c.q, sent |-> 1, result |-> "None" ]

(***************************************************************************)
(* DiscordNotifier (src/discord_notifier.py).  Times are in tenths of a    *)
(* second.  n holds last_request_time and rate_limit_delay.                *)
(***************************************************************************)
\* request_delay (0.5 s), the margin added to retry_after (0.1 s) and the
\* retry_after assumed when the 429 body gives none (1.0 s)
request_delay == 5
RetryAfterMargin == 1
DefaultRetryAfter == 10

\* what webhook.execute() does: a response with a status code (a 429
\* response carries retry_after), or an exception
Response(status, retry_after) == [ status |-> status, retry_after |-> retry_after ]
Raises == Response(0, 0)
RetryAfters == {3, DefaultRetryAfter}
Responses ==
  { Response(200, 0), Response(500, 0), Raises }
  \cup { Response(429, r) : r \in RetryAfters }

\* the result of a send operation that did nothing
NoCalls(n, now) == [ n |-> n, now |-> now, calls |-> << >>, raised |-> FALSE ]

\* _execute_with_rate_limit(webhook) called at time now; first and retry
\* are what webhook.execute() does on the first call and on the retry.
\* calls lists the times of the webhook calls, now is the time at return
_execute_with_rate_limit(n, now, first, retry) ==
  LET elapsed == now - n.last_request_time
      required_delay == IF request_delay >= n.rate_limit_delay
                        THEN request_delay ELSE n.rate_limit_delay
      t1 == IF elapsed < required_delay THEN now + (required_delay - elapsed) ELSE now
      n1 == [ n EXCEPT !.last_request_time = t1 ]
  IN  IF first = Raises
      THEN [ n |-> n, now |-> t1, calls |-> << t1 >>, raised |-> TRUE ]
      ELSE IF first.status = 200
      THEN [ n |-> [ n1 EXCEPT !.rate_limit_delay = 0 ], now |-> t1,
             calls |-> << t1 >>, raised |-> FALSE ]
      ELSE IF first.status = 429
      THEN LET n2 == [ n1 EXCEPT !.rate_limit_delay = first.retry_after + RetryAfterMargin ]
               t2 == t1 + first.retry_after
           IN  IF retry = Raises
               THEN [ n |-> n2, now |-> t2, calls |-> << t1, t2 >>, raised |-> TRUE ]
               ELSE [ n |-> [ n2 EXCEPT !.last_request_time = t2 ], now |-> t2,
                      calls |-> << t1, t2 >>, raised |-> retry.status # 200 ]
      ELSE [ n |-> n1, now |-> t1, calls |-> << t1 >>, raised |-> TRUE ]

\* without DISCORD_WEBHOOK_URL the webhook object has no URL: execute()
\* raises before anything is sent
ExecuteWithoutUrl(n, now, swallow) ==
  [ n |-> n, now |-> now, calls |-> << >>, raised |-> ~swallow ]

\* send_notification(tweet, username, display_name)
send_notification(n, enabled, now, first, retry) ==
  IF ~enabled THEN NoCalls(n, now)
  ELSE _execute_with_rate_limit(n, now, first, retry)

\* send_batch_notification(tweets, username, display_name), tweets not empty
send_batch_notification(n, enabled, now, first, retry) ==
  IF ~enabled THEN ExecuteWithoutUrl(n, now, FALSE)
  ELSE _execute_with_rate_limit(n, now, first, retry)

\* send_error_notification(error_message): webhook.execute() directly,
\* every exception is logged and swallowed
send_error_notification(n, enabled, now, first) ==
  IF ~enabled THEN ExecuteWithoutUrl(n, now, TRUE)
  ELSE [ n |-> n, now |-> now, calls |-> << now >>, raised |-> FALSE ]

\* test_webhook(): webhook.execute() directly, returns a boolean
test_webhook(n, enabled, now, first) ==
  IF ~enabled THEN ExecuteWithoutUrl(n, now, TRUE)
  ELSE [ n |-> n, now |-> now, calls |-> << now >>, raised |-> FALSE ]

(***************************************************************************)
(* Error messages of the hosting service                                   *)
(*                                                                         *)
(* An error message is the sequence of its words; a word is text (w) or a  *)
(* run of digits (n).  re.search is a search for the leftmost position at  *)
(* which consecutive words match the elements of the pattern.              *)
(***************************************************************************)
W(s) == [w |-> s, n |-> 0]
D(k) == [w |-> "#", n |-> k]
IsNum(tok) == tok.w = "#"

HourWords   == {"hour", "hours"}
MinuteWords == {"minute", "minutes"}
SecondWords == {"second", "seconds"}

\* pattern elements: a literal word, (\d+), or a unit alternative
Lit(s)    == [kind |-> "lit",  word |-> s,  units |-> {}, val |-> 0]
Num       == [kind |-> "num",  word |-> "", units |-> {}, val |-> 0]
Unit(U)   == [kind |-> "unit", word |-> "", units |-> U,  val |-> 0]
Digits(k) == [kind |-> "digits", word |-> "", units |-> {}, val |-> k]

ElemMatches(el, tok, ignorecase) ==
  CASE el.kind = "lit"  -> ~IsNum(tok) /\
                           (IF ignorecase THEN Lower(tok.w) = Lower(el.word)
                                          ELSE tok.w = el.word)
    [] el.kind = "num"  -> IsNum(tok)
    [] el.kind = "digits" -> IsNum(tok) /\ tok.n = el.val
    [] OTHER            -> ~IsNum(tok) /\ tok.w \in el.units

MatchesAt(msg, pat, i, ignorecase) ==
  /\ i + Len(pat) - 1 <= Len(msg)
  /\ \A k \in 1..Len(pat) : ElemMatches(pat[k], msg[i + k - 1], ignorecase)

\* re.search: the leftmost match position, 0 when there is none
Search(msg, pat, ignorecase) ==
  LET hits == { i \in 1..Len(msg) : MatchesAt(msg, pat, i, ignorecase) }
  IN  IF hits = {} THEN 0 ELSE CHOOSE i \in hits : \A j \in hits : i <= j

\* "<text>" in error_msg, and "<text>" in error_msg.lower()
Contains(msg, pat) == Search(msg, pat, FALSE) # 0
ContainsLower(msg, pat) == Search(msg, pat, TRUE) # 0

\* match.group(1) of a pattern whose (\d+) is its element number g
NumberAt(msg, pos, g) == msg[pos + g - 1].n
\* the unit word matched by the element number g
UnitAt(msg, pos, g) == msg[pos + g - 1].w

\* the words of the message texts
RetryThisActionInAbout == << Lit("retry"), Lit("this"), Lit("action"), Lit("in"), Lit("about") >>
YouCanRetryThisActionIn == << Lit("you"), Lit("can"), Lit("retry"), Lit("this"), Lit("action"), Lit("in") >>
RetryIn == << Lit("retry"), Lit("in") >>

TooManyRequests == << Lit("Too"), Lit("Many"), Lit("Requests") >>
RateLimitWords == << Lit("rate"), Lit("limit") >>
OverTheLimit == << Lit("over"), Lit("the"), Lit("limit"), Lit("of"), Digits(100000), Lit("files") >>
Status429 == << Digits(429) >>

\* the default wait of one hour and the one-second margin
DefaultWait == 3600
WaitMargin == 1

\* seconds for a value and the unit word the pattern matched
UnitSeconds(value, unit) ==
  IF unit \in HourWords THEN value * 3600
  ELSE IF unit \in MinuteWords THEN value * 60
  ELSE value

\* the wait_time computed by BackupManager._handle_upload_error (patterns
\* 1, 2 and 3), before the margin is added
BMHandleWaitTime(msg) ==
  LET p1 == RetryThisActionInAbout \o << Num, Unit(HourWords \cup MinuteWords) >>
      p2 == YouCanRetryThisActionIn \o << Num, Unit(HourWords \cup MinuteWords) >>
      p3 == << Num, Unit(HourWords \cup MinuteWords) >>
      m1 == Search(msg, p1, FALSE)
      m2 == Search(msg, p2, FALSE)
      m3 == Search(msg, p3, FALSE)
      w12 == IF m1 # 0 THEN UnitSeconds(NumberAt(msg, m1, 6), UnitAt(msg, m1, 7))
             ELSE IF m2 # 0 THEN UnitSeconds(NumberAt(msg, m2, 7), UnitAt(msg, m2, 8))
             ELSE DefaultWait
  IN  IF w12 = DefaultWait /\ m3 # 0
      THEN UnitSeconds(NumberAt(msg, m3, 1), UnitAt(msg, m3, 2))
      ELSE w12

\* total_wait of BackupManager._handle_upload_error
BMHandleTotalWait(msg) == BMHandleWaitTime(msg) + WaitMargin

\* BackupManager._extract_wait_time: the first of five patterns that
\* matches; the first three have one group, so their value is taken as
\* seconds
_extract_wait_time(msg) ==
  LET AllUnits == HourWords \cup MinuteWords \cup SecondWords
      q1 == RetryIn \o << Num, Unit({"seconds"}) >>
      q2 == RetryIn \o << Num, Unit({"minutes"}) >>
      q3 == RetryIn \o << Num, Unit({"hours"}) >>
      q4 == YouCanRetryThisActionIn \o << Num, Unit(AllUnits) >>
      q5 == << Num, Unit(AllUnits) >>
      n1 == Search(msg, q1, TRUE)
      n2 == Search(msg, q2, TRUE)
      n3 == Search(msg, q3, TRUE)
      n4 == Search(msg, q4, TRUE)
      n5 == Search(msg, q5, TRUE)
      wait_time ==
        IF n1 # 0 THEN NumberAt(msg, n1, 3)
        ELSE IF n2 # 0 THEN NumberAt(msg, n2, 3)
        ELSE IF n3 # 0 THEN NumberAt(msg, n3, 3)
        ELSE IF n4 # 0 THEN UnitSeconds(NumberAt(msg, n4, 7), UnitAt(msg, n4, 8))
        ELSE IF n5 # 0 THEN UnitSeconds(NumberAt(msg, n5, 1), UnitAt(msg, n5, 2))
        ELSE DefaultWait
  IN  wait_time + WaitMargin

\* the wait_time returned by LogOnlyHFUploader._handle_upload_error
\* (patterns 1 and 2 only); _upload_with_retry sleeps exactly this long
LOHandleWaitTime(msg) ==
  LET p1 == RetryThisActionInAbout \o << Num, Unit(HourWords \cup MinuteWords) >>
      p2 == YouCanRetryThisActionIn \o << Num, Unit(HourWords \cup MinuteWords) >>
      m1 == Search(msg, p1, FALSE)
      m2 == Search(msg, p2, FALSE)
  IN  IF m1 # 0 THEN UnitSeconds(NumberAt(msg, m1, 6), UnitAt(msg, m1, 7))
      ELSE IF m2 # 0 THEN UnitSeconds(NumberAt(msg, m2, 7), UnitAt(msg, m2, 8))
      ELSE DefaultWait


(***************************************************************************)
(* Repository names and rotation (BackupManager, LogOnlyHFUploader)        *)
(*                                                                         *)
(* A repository name "<base>_<N>" is its suffix N; 0 is the name without   *)
(* a suffix.  The archival state is the full_repo_name held by each of    *)
(* the two components, the repo_name in config.yaml and the set of        *)
(* repositories that exist on the hosting service.                         *)
(***************************************************************************)
\* a defective successor that counts a name without suffix as number 0
NextRepoNameFromZero(full_repo_name) == full_repo_name + 1

\* _get_next_repo_name: a name without suffix counts as number 1
_get_next_repo_name(full_repo_name) ==
  (IF full_repo_name = 0 THEN 1 ELSE full_repo_name) + 1

\* main.py line 43 constructs LogOnlyHFUploader(config, db_manager): the
\* uploader's backup_manager reference is None
SharedBackupManager == FALSE

\* create_repo(name) without exist_ok: fails when the service refuses or
\* the repository already exists
Created(st, name, create_ok) == create_ok /\ name \notin st.repos

\* BackupManager._handle_file_limit_error and the file-limit branch of
\* BackupManager._handle_upload_error
_handle_file_limit_error(st, create_ok) ==
  LET new_repo_name == _get_next_repo_name(st.bm)
      created == Created(st, new_repo_name, create_ok)
  IN  [ st |-> [ st EXCEPT !.cfg = new_repo_name,
                           !.bm = new_repo_name,
                           !.repos = IF created THEN @ \cup {new_repo_name} ELSE @,
                           !.writes = @ + 1 ],
        ok |-> created ]

\* LogOnlyHFUploader._handle_file_limit_and_create_new_repo
_handle_file_limit_and_create_new_repo(st, create_ok) ==
  LET new_repo_name == _get_next_repo_name(st.lo)
      created == Created(st, new_repo_name, create_ok)
  IN  [ st |-> [ st EXCEPT !.cfg = new_repo_name,
                           !.lo = new_repo_name,
                           !.bm = IF SharedBackupManager THEN new_repo_name ELSE @,
                           !.repos = IF created THEN @ \cup {new_repo_name} ELSE @,
                           !.writes = @ + 1 ],
        ok |-> created ]

\* the re-synchronisation at the start of process_tweets and of
\* process_downloaded_media
SyncFromBackupManager(st) ==
  IF SharedBackupManager /\ st.bm # st.lo THEN [ st EXCEPT !.lo = st.bm ] ELSE st

(***************************************************************************)
(* Upload retry routines                                                   *)
(*                                                                         *)
(* env.errors[k] is what the k-th call of upload_file raises (OK: nothing) *)
(* and env.create_ok[k] whether the service accepts a create_repo made     *)
(* while handling it.  A run r records the archival state, the repository  *)
(* each attempt was made against (tried), the sleeps (slept), the number   *)
(* of rotations and the result.                                            *)
(***************************************************************************)
OK == << >>
max_retries == 3
\* time.sleep(2) after create_repo
RepoCreationWait == 2

NotFound == << D(404), W("Not"), W("Found") >>

\* what upload_file does for attempt k against repository repo
UploadOutcome(st, env, k, repo) ==
  IF env.errors[k] = OK /\ repo \notin st.repos THEN NotFound ELSE env.errors[k]

NewRun(st) ==
  [ st |-> st, tried |-> << >>, slept |-> << >>, rotations |-> 0, result |-> "running" ]

IsRateLimit(msg) == Contains(msg, Status429) /\ Contains(msg, TooManyRequests)
IsFileLimit(msg) == Contains(msg, OverTheLimit)

\* BackupManager._upload_with_retry: retry_count failed attempts so far,
\* kwargs_repo is kwargs['repo_id']
RECURSIVE BMUploadWithRetryLoop(_, _, _, _, _)
BMUploadWithRetryLoop(r, env, skip_rate_limit_wait, retry_count, kwargs_repo) ==
  IF retry_count >= max_retries THEN [ r EXCEPT !.result = "failed" ]
  ELSE
    LET k   == retry_count + 1
        e   == UploadOutcome(r.st, env, k, kwargs_repo)
        r1  == [ r EXCEPT !.tried = Append(@, kwargs_repo) ]
    IN  IF e = OK THEN [ r1 EXCEPT !.result = "ok" ]
        ELSE IF IsRateLimit(e) THEN
          IF skip_rate_limit_wait THEN [ r1 EXCEPT !.result = "raised" ]
          ELSE LET r2 == [ r1 EXCEPT !.slept = Append(@, BMHandleTotalWait(e)) ]
               IN  IF k >= max_retries THEN [ r2 EXCEPT !.result = "raised" ]
                   ELSE BMUploadWithRetryLoop(r2, env, skip_rate_limit_wait, k, r2.st.bm)
        ELSE IF IsFileLimit(e) THEN
          LET h  == _handle_file_limit_error(r1.st, env.create_ok[k])
              r2 == [ r1 EXCEPT !.st = h.st, !.rotations = @ + 1 ]
              r3 == [ r2 EXCEPT !.slept = Append(@, RepoCreationWait) ]
          IN  IF ~h.ok THEN [ r2 EXCEPT !.result = "raised" ]
              ELSE IF k >= max_retries THEN [ r3 EXCEPT !.result = "raised" ]
              ELSE BMUploadWithRetryLoop(r3, env, skip_rate_limit_wait, k, r3.st.bm)
        ELSE [ r1 EXCEPT !.result = "raised" ]

_upload_with_retry(st, env, skip_rate_limit_wait) ==
  BMUploadWithRetryLoop(NewRun(st), env, skip_rate_limit_wait, 0, st.bm)

\* BackupManager._upload_file_with_retry: attempt counts from 0; every
\* attempt uploads to the current full_repo_name
RECURSIVE BMUploadFileLoop(_, _, _)
BMUploadFileLoop(r, env, attempt) ==
  IF attempt >= max_retries THEN [ r EXCEPT !.result = "failed" ]
  ELSE
    LET k   == attempt + 1
        e   == UploadOutcome(r.st, env, k, r.st.bm)
        r1  == [ r EXCEPT !.tried = Append(@, r.st.bm) ]
    IN  IF e = OK THEN [ r1 EXCEPT !.result = "ok" ]
        ELSE IF Contains(e, Status429) \/ ContainsLower(e, RateLimitWords) THEN
          BMUploadFileLoop([ r1 EXCEPT !.slept = Append(@, _extract_wait_time(e)) ],
                           env, attempt + 1)
        ELSE IF IsFileLimit(e) THEN
          LET h  == _handle_file_limit_error(r1.st, env.create_ok[k])
              r2 == [ r1 EXCEPT !.st = h.st, !.rotations = @ + 1 ]
          IN  IF h.ok
              THEN BMUploadFileLoop([ r2 EXCEPT !.slept = Append(@, RepoCreationWait) ],
                                    env, attempt + 1)
              ELSE [ r2 EXCEPT !.result = "failed" ]
        ELSE IF attempt < max_retries - 1
          THEN BMUploadFileLoop([ r1 EXCEPT !.slept = Append(@, 1) ], env, attempt + 1)
          ELSE BMUploadFileLoop(r1, env, attempt + 1)

_upload_file_with_retry(st, env) == BMUploadFileLoop(NewRun(st), env, 0)

\* the short backoff of the uploader: base_delay * (attempt + 1)
base_delay == 2
\* the wait _handle_upload_error returns after a rotation
FileLimitRetryWait == 2

\* LogOnlyHFUploader._upload_with_retry; its _handle_upload_error tests the
\* file limit first, then the rate limit
RECURSIVE LOUploadLoop(_, _, _)
LOUploadLoop(r, env, attempt) ==
  IF attempt >= max_retries THEN [ r EXCEPT !.result = "failed" ]
  ELSE
    LET k   == attempt + 1
        e   == UploadOutcome(r.st, env, k, r.st.lo)
        r1  == [ r EXCEPT !.tried = Append(@, r.st.lo) ]
        backoff(rr) ==
          IF attempt < max_retries - 1
          THEN LOUploadLoop([ rr EXCEPT !.slept = Append(@, base_delay * (attempt + 1)) ],
                            env, attempt + 1)
          ELSE [ rr EXCEPT !.result = "failed" ]
    IN  IF e = OK THEN [ r1 EXCEPT !.result = "ok" ]
        ELSE IF IsFileLimit(e) THEN
          LET h  == _handle_file_limit_and_create_new_repo(r1.st, env.create_ok[k])
              r2 == [ r1 EXCEPT !.st = h.st, !.rotations = @ + 1 ]
          IN  IF h.ok
              THEN LOUploadLoop([ r2 EXCEPT !.slept = @ \o << RepoCreationWait, FileLimitRetryWait >> ],
                                env, attempt + 1)
              ELSE backoff(r2)
        ELSE IF IsRateLimit(e) THEN
          LOUploadLoop([ r1 EXCEPT !.slept = Append(@, LOHandleWaitTime(e)) ],
                       env, attempt + 1)
        ELSE backoff(r1)

LOUploadWithRetry(st, env) == LOUploadLoop(NewRun(st), env, 0)


(***************************************************************************)
(* BackupManager stages (src/backup_manager.py)                            *)
(***************************************************************************)
\* _ensure_repo_exists: create the repository when repo_info fails
_ensure_repo_exists(st, create_ok) ==
  IF st.bm \in st.repos THEN [ st |-> st, ok |-> TRUE ]
  ELSE IF create_ok THEN [ st |-> [ st EXCEPT !.repos = @ \cup {st.bm} ], ok |-> TRUE ]
  ELSE [ st |-> st, ok |-> FALSE ]

\* the loop of backup_tweets: one _upload_file_with_retry per file of
\* tweet['local_media']; uploads[i] is what the service does for tweets[i]
RECURSIVE BackupLoop(_, _, _, _)
BackupLoop(st, tweets, uploads, i) ==
  IF i > Len(tweets) THEN st
  ELSE IF LocalMedia(tweets[i]) # << >>
       THEN BackupLoop(_upload_file_with_retry(st, uploads[i]).st, tweets, uploads, i + 1)
       ELSE BackupLoop(st, tweets, uploads, i + 1)

\* backup_tweets(new_tweets): every exception is logged and swallowed
backup_tweets(st, tweets, create_ok, uploads) ==
  LET e == _ensure_repo_exists(st, create_ok)
  IN  IF e.ok THEN BackupLoop(e.st, tweets, uploads, 1) ELSE st

\* _upload_images: one _upload_with_retry per file left in the media
\* directories; an exception is logged and the sweep goes on
RECURSIVE UploadImagesLoop(_, _, _)
UploadImagesLoop(st, files, i) ==
  IF i > Len(files) THEN st
  ELSE LET r == _upload_with_retry(st, files[i], FALSE)
       IN  UploadImagesLoop(r.st, files, i + 1)

\* upload_remaining_media: the posts of the database sweep are backed up
\* one by one (db_posts: the rows with media and no archive URL), then
\* _ensure_repo_exists, then the files left on disk
upload_remaining_media(st, sweep) ==
  LET s1 == IF sweep.db_posts = << >> THEN st
            ELSE backup_tweets(st, sweep.db_posts, sweep.create_ok, sweep.db_uploads)
      e  == _ensure_repo_exists(s1, sweep.create_ok)
  IN  IF e.ok THEN UploadImagesLoop(e.st, sweep.files, 1) ELSE s1

\* the URL recorded for a file uploaded to a repository:
\* https://huggingface.co/datasets/{full_repo_name}/resolve/main/{hf_path}
HfUrl(repo, file) == << repo, file >>

\* _is_file_already_uploaded(file_path, hf_path): the row of the post
\* exists, has URLs and the URL of the file in the current repository is
\* among them
_is_file_already_uploaded(st, rows, urls, file) ==
  file \in rows /\ HfUrl(st.bm, file) \in urls[file]

\* _update_tweet_hf_urls(image_file, hf_path): adds the URL of the file in
\* the current repository to the row of the post, if there is one
_update_tweet_hf_urls(st, rows, urls, file) ==
  IF file \in rows THEN [ urls EXCEPT ![file] = @ \cup {HfUrl(st.bm, file)} ] ELSE urls

\* _upload_plain_images(images_dir): x holds the archival state, the
\* recorded URLs and the files uploaded so far; files lists the files of
\* the directory, envs[i] is what the service does for files[i].  A file
\* whose upload raises is logged and the loop goes on
RECURSIVE PlainImagesLoop(_, _, _, _, _)
PlainImagesLoop(x, rows, files, envs, i) ==
  IF i > Len(files) THEN x
  ELSE LET file == files[i]
       IN  IF _is_file_already_uploaded(x.st, rows, x.urls, file)
           THEN PlainImagesLoop(x, rows, files, envs, i + 1)
           ELSE LET r == _upload_with_retry(x.st, envs[i], FALSE)
                IN  IF r.result = "ok"
                    THEN PlainImagesLoop(
                           [ st |-> r.st,
                             urls |-> _update_tweet_hf_urls(r.st, rows, x.urls, file),
                             uploaded |-> x.uploaded \cup {file} ],
                           rows, files, envs, i + 1)
                    ELSE PlainImagesLoop([ x EXCEPT !.st = r.st ], rows, files, envs, i + 1)

_upload_plain_images(st, rows, urls, files, envs) ==
  PlainImagesLoop([ st |-> st, urls |-> urls, uploaded |-> {} ], rows, files, envs, 1)

\* backup_tweets(new_tweets) as its caller sees it: the try block ends at
\* the first exception, which is logged; nothing is raised
BackupTweetsCall(st, tweets, create_ok, uploads) ==
  [ st |-> backup_tweets(st, tweets, create_ok, uploads),
    ensure_raised |-> ~_ensure_repo_exists(st, create_ok).ok,
    raised |-> FALSE ]

\* upload_remaining_media() as its caller sees it: an exception of
\* _upload_remaining_from_db or of _ensure_repo_exists is logged and
\* raised again
UploadRemainingMediaCall(st, sweep) ==
  LET s1 == IF sweep.db_posts = << >> THEN st
            ELSE backup_tweets(st, sweep.db_posts, sweep.create_ok, sweep.db_uploads)
      failed == ~_ensure_repo_exists(s1, sweep.create_ok).ok
  IN  [ st |-> upload_remaining_media(st, sweep),
        ensure_raised |-> failed,
        raised |-> failed ]

(***************************************************************************)
(* The error messages explored                                             *)
(***************************************************************************)
RateLimitHead == << D(429), W("Too"), W("Many"), W("Requests") >>

\* "... retry this action in about 2 hours ..."
MsgAbout2Hours ==
  RateLimitHead \o << W("retry"), W("this"), W("action"), W("in"), W("about"), D(2), W("hours") >>
\* a rate-limit error with no duration phrase
MsgNoDuration == RateLimitHead
\* "... you can retry this action in 5 minutes"
MsgIn5Minutes ==
  RateLimitHead \o << W("you"), W("can"), W("retry"), W("this"), W("action"), W("in"), D(5), W("minutes") >>
\* "... retry in 3 hours"
MsgRetryIn3Hours ==
  RateLimitHead \o << W("Rate"), W("limit"), W("retry"), W("in"), D(3), W("hours") >>
\* the file-count ceiling of a repository
MsgFileLimit ==
  << W("repository"), W("is"), W("over"), W("the"), W("limit"), W("of"), D(100000), W("files") >>
\* any other failure
MsgServerError == << D(500), W("Server"), W("Error") >>

Messages ==
  { MsgAbout2Hours, MsgNoDuration, MsgIn5Minutes, MsgRetryIn3Hours, MsgFileLimit, MsgServerError }

\* what the service does during one upload call
Envs ==
  [ errors : [ 1..max_retries -> {OK} \cup Messages ],
    create_ok : [ 1..max_retries -> BOOLEAN ] ]

\* the archival state after construction of both components: the same
\* configured repository, which exists
InitialArchive(n) ==
  [ bm |-> n, lo |-> n, cfg |-> n, repos |-> {n}, writes |-> 0 ]

(***************************************************************************)
(* State                                                                   *)
(***************************************************************************)
VARIABLES
  \* configuration, fixed after start-up
  accounts,          \* config['monitored_accounts']
  force_full_fetch,  \* tweet_settings.force_full_fetch
  backup_enabled,    \* huggingface_backup.enabled
  hydrus_mode,       \* hydrus.enabled and import.event_tweets_only
  \* the database
  all_tweets, event_tweets, log_only_tweets,
  db_faults,         \* SQLAlchemyErrors raised so far
  \* archival components and the hosting service
  archive,
  \* run_once
  pass,              \* number of the current pass
  pc,                \* position in run_once
  pass_result,       \* how the last pass ended
  acct,              \* index of the account of the loop
  new_tweets,
  event_list,        \* event_tweets returned by detect_event_tweets
  idx,               \* index of the loop of process_tweets
  \* observations
  archived,          \* backup_tweets was called for this account
  notify_log,        \* ids for which send_notification was called
  hydrus_log,        \* ids for which import_tweet_images was called
  log_media          \* process_tweets: the files in its temporary directory
                     \* and the posts whose upload failed

VARIABLES
  \* one call of an upload retry routine
  u_pc, u_routine, u_start, u_skip, u_env, u_run

VARIABLES
  \* one call of detect_event_tweets
  d_pc, d_tweets, d_answers, d_result

VARIABLES
  \* one call of a crawl routine of TwitterMonitor
  c_pc, c_routine, c_feed, c_table, c_user, c_force, c_result

VARIABLES
  \* one call of download_media_for_tweets
  m_pc,              \* "loop" or "done"
  m_cookies,         \* len(cookie_rotator.cookie_files)
  m_index,           \* cookie_rotator.current_index
  m_remaining,       \* remaining_tweet_ids
  m_no_progress,     \* consecutive_no_progress
  m_done,            \* the ids of all_tweet_media_paths
  m_requested,       \* the ids written to the URL file of the last attempt
  m_completed,       \* the ids the last attempt collected files for
  m_used             \* the cookies of the attempt before the last and of
                     \* the last attempt (0: none yet)

VARIABLES
  \* the walk of _get_user_tweets_twscrape_internal over the timeline
  t_pc,              \* "walking", "done" (the loop was left) or "raised"
  t_alias,           \* asyncio.TimeoutError is the builtin TimeoutError
                     \* (Python 3.11 and later) or a class of its own
  t_elapsed,         \* time.time() - start_time, in units of 5 seconds
  t_retry,           \* self._tweet_retry_count
  t_fired            \* how often the overall timeout check has fired

VARIABLES
  \* the plain sweep of the images directory, run after run
  w_pc,              \* "ready" or "swept"
  w_sweeps,          \* the number of sweeps so far
  w_archive,         \* the archival state (full_repo_name is w_archive.bm)
  w_rows,            \* the files whose post has a row in all_tweets
  w_urls,            \* huggingface_urls of the post of each file
  w_before,          \* w_urls when the last sweep began
  w_uploaded         \* the files the last sweep uploaded

VARIABLES
  \* one BackupManager operation that needs the repository
  k_pc,              \* "ready" or "done"
  k_op,              \* the operation called
  k_start,           \* the archival state before the call
  k_sweep,           \* what the operation finds and what the service does
  k_result           \* the archival state after the call, whether
                     \* _ensure_repo_exists raised in it, and whether the
                     \* operation raised

VARIABLES
  \* two calls of save_all_tweets or save_log_only_tweets
  s_pc,              \* "ready", "once" (after the first call), "twice"
  s_kind,            \* the table saved to
  s_tweets,          \* the post list of both calls
  s_user,            \* the username of both calls
  s_table,           \* the rows of the table
  s_first,           \* the rows after the first call
  s_saved            \* what the calls returned, in order

VARIABLES
  \* steps 1 to 5 of run_once for one normal account
  p_pc,              \* the step to take next
  p_force,           \* tweet_settings.force_full_fetch
  p_tweets,          \* what get_user_tweets returned
  p_new,             \* new_tweets
  p_all,             \* rows of all_tweets
  p_events,          \* rows of event_tweets
  p_answers,         \* what the models answered for each post of new_tweets
  p_event_list,      \* what detect_event_tweets returned
  p_notified,        \* the posts send_notification was called with, in order
  p_raised           \* send_notification raised

VARIABLES
  \* DiscordNotifier
  n_now,             \* time.time(), in tenths of a second
  n_enabled,         \* DISCORD_WEBHOOK_URL is set
  notifier,          \* last_request_time and rate_limit_delay
  n_run              \* the last send operation: its name, what the webhook
                     \* did, the time of the webhook call before it (-1:
                     \* none), the times of its calls, whether it raised

VARIABLES
  \* one call of RcloneClient.encrypt_files_batch
  e_pc,              \* "ready", "chunks" or "done"
  e_paths,           \* file_paths, the files in the order passed
  e_size,            \* batch_size
  e_layout,          \* where the crypt remote puts batch_<k>
  e_disk,            \* the files below eventmonitor_encrypted_files
  e_map,             \* encrypted_files
  e_chunk,           \* chunk_idx of the next chunk
  e_written,         \* outputs the tool wrote below the directory in this call
  e_fallback         \* the count-mismatch branch ran

VARIABLES
  \* runs of scripts/reimport_to_hydrus.py
  i_pc,              \* "ready", "loop" or "exited"
  i_args,            \* --dry-run, --limit, --reset of the current run
  i_file,            \* logs/reimport_progress.json
  i_processed_ids,   \* processed_ids of the current run
  i_records,         \* records of the current run
  i_pos,             \* records handled by the loop of the current run
  i_done,            \* post ids imported since the progress was last reset
  i_cleared,         \* the current run deleted the file after its loop
  i_runs             \* runs started

VARIABLES
  \* passes of run_once over one normal account with event detection
  q_pc,              \* "idle", "detect" or "notify"
  q_pass,            \* the number of the pass, modulo 2
  q_force,           \* tweet_settings.force_full_fetch
  q_all,             \* rows of all_tweets
  q_events,          \* rows of event_tweets
  q_new,             \* new_tweets
  q_event_list,      \* what detect_event_tweets returned
  q_classified,      \* the posts the loop of detect_event_tweets has taken
  q_sent             \* per post, the notifications sent (counted up to 2)

VARIABLES
  \* passes of run_once over one log-only account
  l_pc,              \* "idle" or "upload"
  l_encrypt,         \* the uploader has an rclone_client
  l_rows,            \* rows of log_only_tweets
  l_urls,            \* per post, the media items with a URL in huggingface_urls
  l_fetched,         \* what get_user_tweets returned in this pass
  l_new,             \* new_tweets
  l_idx,             \* index of the loop of process_tweets
  l_repo,            \* the objects uploaded to the repository
  l_failed,          \* posts an earlier pass handed over and left without URL
  l_passes           \* passes started

VARIABLES
  \* the Gemini throttle of EventDetector
  g_now,             \* datetime.now(), in seconds since construction
  gemini_quota,      \* gemini_request_count[model] and gemini_quota_reset_time
  g_sent,            \* requests issued at the previous and at the current instant
  g_result           \* what the last call of _analyze_with_llm returned

rvars == << accounts, force_full_fetch, backup_enabled, hydrus_mode,
            all_tweets, event_tweets, log_only_tweets, db_faults, archive,
            pass, pc, pass_result, acct, new_tweets, event_list, idx,
            archived, notify_log, hydrus_log, log_media >>
uvars == << u_pc, u_routine, u_start, u_skip, u_env, u_run >>
dvars == << d_pc, d_tweets, d_answers, d_result >>
cvars == << c_pc, c_routine, c_feed, c_table, c_user, c_force, c_result >>
\* the variables of the specifications of single components
gvars == << g_now, gemini_quota, g_sent, g_result >>
nvars == << n_now, n_enabled, notifier, n_run >>
pvars == << p_pc, p_force, p_tweets, p_new, p_all, p_events, p_answers,
           p_event_list, p_notified, p_raised >>
svars == << s_pc, s_kind, s_tweets, s_user, s_table, s_first, s_saved >>
\* the variables of the specifications added after SpecPipeline
kvars == << k_pc, k_op, k_start, k_sweep, k_result >>
wvars == << w_pc, w_sweeps, w_archive, w_rows, w_urls, w_before, w_uploaded >>
tvars == << t_pc, t_alias, t_elapsed, t_retry, t_fired >>
mvars == << m_pc, m_cookies, m_index, m_remaining, m_no_progress, m_done,
           m_requested, m_completed, m_used >>
evars == << e_pc, e_paths, e_size, e_layout, e_disk, e_map, e_chunk, e_written,
           e_fallback >>
ivars == << i_pc, i_args, i_file, i_processed_ids, i_records, i_pos, i_done,
           i_cleared, i_runs >>
qvars == << q_pc, q_pass, q_force, q_all, q_events, q_new, q_event_list, q_classified,
           q_sent >>
lvars == << l_pc, l_encrypt, l_rows, l_urls, l_fetched, l_new, l_idx, l_repo,
           l_failed, l_passes >>
zvars == << svars, kvars, wvars, tvars, mvars, evars, ivars, qvars, lvars >>
xvars == << cvars, gvars, nvars, pvars, zvars >>
vars == << rvars, uvars, dvars, xvars >>

config_vars == << accounts, force_full_fetch, backup_enabled, hydrus_mode >>
db_vars == << all_tweets, event_tweets, log_only_tweets >>

\* the account of the loop
account == accounts[acct]
username == account.username

\* event_detection.enabled of config.yaml and DISCORD_WEBHOOK_URL are set,
\* and the log-only feature is enabled with a token
event_detection_globally_enabled == TRUE
log_only_uploader_enabled == TRUE

\* a defective branch test that compares with another spelling
IsLogOnlyMisspelt(a) == a.account_type = "log_only"

\* account_type == 'log': the account takes the log-only branch
IsLogOnly(a) == a.account_type = "log"

\* a database operation may raise SQLAlchemyError
FaultChoices == IF db_faults < MaxDbFaults THEN BOOLEAN ELSE {FALSE}
Count(f) == IF f THEN 1 ELSE 0

\* what the service does during one upload of a stage of run_once: the
\* file-count ceiling is met zero, one or two times in a row
StageEnvs ==
  [ errors : { [ k \in 1..max_retries |-> IF k <= n THEN MsgFileLimit ELSE OK ] : n \in 0..2 },
    create_ok : { [ k \in 1..max_retries |-> b ] : b \in BOOLEAN } ]

\* what upload_remaining_media finds and what the service does meanwhile
Sweeps ==
  { [ create_ok |-> TRUE, db_posts |-> << >>, db_uploads |-> << >>, files |-> << >> ] }
  \cup { [ create_ok |-> c, db_posts |-> << p >>, db_uploads |-> << e >>, files |-> << >> ]
           : c \in BOOLEAN, p \in { q \in IdsOf(all_tweets) : HasMedia(q) }, e \in StageEnvs }
  \cup { [ create_ok |-> c, db_posts |-> << >>, db_uploads |-> << >>, files |-> << e >> ]
           : c \in BOOLEAN, e \in StageEnvs }

\* no temporary directory, no upload attempted
NoLogMedia == [ temp_dir |-> {}, failed |-> {} ]

RunIdle ==
  /\ accounts = << >> /\ force_full_fetch = FALSE /\ backup_enabled = FALSE
  /\ hydrus_mode = "off"
  /\ all_tweets = << >> /\ event_tweets = << >> /\ log_only_tweets = << >>
  /\ db_faults = 0 /\ archive = InitialArchive(0)
  /\ pass = 0 /\ pc = "off" /\ pass_result = "none" /\ acct = 0
  /\ new_tweets = << >> /\ event_list = << >> /\ idx = 0
  /\ archived = FALSE /\ notify_log = {} /\ hydrus_log = {}
  /\ log_media = NoLogMedia

UploadIdle ==
  /\ u_pc = "off" /\ u_routine = "none" /\ u_start = InitialArchive(0)
  /\ u_skip = FALSE /\ u_env = [errors |-> << >>, create_ok |-> << >>]
  /\ u_run = NewRun(InitialArchive(0))

DetectIdle ==
  /\ d_pc = "off" /\ d_tweets = << >> /\ d_answers = << >> /\ d_result = << >>

CrawlIdle ==
  /\ c_pc = "off" /\ c_routine = "none" /\ c_feed = << >> /\ c_table = << >>
  /\ c_user = "" /\ c_force = FALSE
  /\ c_result = [ walked |-> FALSE, tweets |-> << >> ]

GeminiIdle ==
  /\ g_now = 0 /\ gemini_quota = [ count |-> 0, reset |-> 0 ]
  /\ g_sent = << 0, 0 >> /\ g_result = "off"

NoRun ==
  [ op |-> "none", first |-> Raises, retry |-> Raises, prev |-> -1,
    calls |-> << >>, raised |-> FALSE ]

NotifierIdle ==
  /\ n_now = 0 /\ n_enabled = FALSE
  /\ notifier = [ last_request_time |-> 0, rate_limit_delay |-> 0 ]
  /\ n_run = NoRun

PipelineIdle ==
  /\ p_pc = "idle" /\ p_force = FALSE /\ p_tweets = << >> /\ p_new = << >>
  /\ p_all = << >> /\ p_events = << >> /\ p_answers = << >>
  /\ p_event_list = << >> /\ p_notified = << >> /\ p_raised = FALSE

SaveIdle ==
  /\ s_pc = "idle" /\ s_kind = "none" /\ s_tweets = << >> /\ s_user = "none"
  /\ s_table = << >> /\ s_first = << >> /\ s_saved = << >>

\* the components specified after SpecPipeline are not running
NoSweep == [ create_ok |-> TRUE, db_posts |-> << >>, db_uploads |-> << >>, files |-> << >> ]

RepoIdle ==
  /\ k_pc = "idle" /\ k_op = "none" /\ k_start = InitialArchive(0)
  /\ k_sweep = NoSweep
  /\ k_result = [ st |-> InitialArchive(0), ensure_raised |-> FALSE, raised |-> FALSE ]

SweepIdle ==
  /\ w_pc = "idle" /\ w_sweeps = 0 /\ w_archive = InitialArchive(0) /\ w_rows = {}
  /\ w_urls = << >> /\ w_before = << >> /\ w_uploaded = {}

WalkIdle ==
  /\ t_pc = "idle" /\ t_alias = FALSE /\ t_elapsed = 0 /\ t_retry = 0 /\ t_fired = 0

DownloadIdle ==
  /\ m_pc = "idle" /\ m_cookies = 0 /\ m_index = 0 /\ m_remaining = {}
  /\ m_no_progress = 0 /\ m_done = {} /\ m_requested = {} /\ m_completed = {}
  /\ m_used = << 0, 0 >>

NoProgressFile == [ exists |-> FALSE, ids |-> {} ]

NoArgs == [ dry_run |-> FALSE, limit |-> 0, reset |-> FALSE ]

EncryptIdle ==
  /\ e_pc = "idle" /\ e_paths = << >> /\ e_size = 1 /\ e_layout = "subdir"
  /\ e_disk = {} /\ e_map = << >> /\ e_chunk = 0 /\ e_written = 0
  /\ e_fallback = FALSE

ReimportIdle ==
  /\ i_pc = "idle" /\ i_args = NoArgs /\ i_file = NoProgressFile
  /\ i_processed_ids = {} /\ i_records = << >> /\ i_pos = 0 /\ i_done = {}
  /\ i_cleared = FALSE /\ i_runs = 0

PassesIdle ==
  /\ q_pc = "off" /\ q_pass = 0 /\ q_force = FALSE /\ q_all = << >> /\ q_events = << >>
  /\ q_new = << >> /\ q_event_list = << >> /\ q_classified = {} /\ q_sent = << >>

LogOnlyIdle ==
  /\ l_pc = "off" /\ l_encrypt = FALSE /\ l_rows = << >> /\ l_urls = << >>
  /\ l_fetched = << >> /\ l_new = << >> /\ l_idx = 0 /\ l_repo = {}
  /\ l_failed = {} /\ l_passes = 0

LaterIdle ==
  /\ SaveIdle /\ RepoIdle /\ SweepIdle /\ WalkIdle /\ DownloadIdle
  /\ EncryptIdle /\ ReimportIdle /\ PassesIdle /\ LogOnlyIdle

\* the single components are not running
ExtraIdle == CrawlIdle /\ GeminiIdle /\ NotifierIdle /\ PipelineIdle /\ LaterIdle

\* the components specified up to SpecPipeline are not running
EarlierIdle ==
  /\ RunIdle /\ UploadIdle /\ DetectIdle
  /\ CrawlIdle /\ GeminiIdle /\ NotifierIdle /\ PipelineIdle

\* EventMonitor.__init__: empty tables, both archival components on the
\* configured repository
Init ==
  /\ accounts \in AccountLists
  /\ force_full_fetch \in BOOLEAN
  /\ backup_enabled \in BOOLEAN
  /\ hydrus_mode \in HydrusModes
  /\ all_tweets = << >> /\ event_tweets = << >> /\ log_only_tweets = << >>
  /\ db_faults = 0
  /\ archive = InitialArchive(0)
  /\ pass = 0 /\ pc = "idle" /\ pass_result = "none" /\ acct = 0
  /\ new_tweets = << >> /\ event_list = << >> /\ idx = 0
  /\ archived = FALSE /\ notify_log = {} /\ hydrus_log = {}
  /\ log_media = NoLogMedia
  /\ UploadIdle /\ DetectIdle /\ ExtraIdle

(***************************************************************************)
(* EventMonitor.run_once (main.py)                                         *)
(***************************************************************************)
ResetAccountVars ==
  /\ new_tweets' = << >> /\ event_list' = << >> /\ idx' = 0
  /\ archived' = FALSE /\ log_media' = NoLogMedia

\* run_continuous calls run_once; step 0 of run_once: with archival
\* enabled, upload_remaining_media, whose failure is logged
StartPass ==
  /\ pc = "idle" /\ pass < MaxPasses
  /\ pass' = pass + 1 /\ pass_result' = "running"
  /\ acct' = 1
  /\ ResetAccountVars
  /\ IF backup_enabled
     THEN \E sweep \in Sweeps :
            LET st == upload_remaining_media(archive, sweep)
            IN  /\ st.writes <= MaxRotations
                /\ archive' = st
     ELSE UNCHANGED archive
  /\ pc' = "loop"
  /\ UNCHANGED << config_vars, db_vars, db_faults, notify_log, hydrus_log, uvars, dvars, xvars >>

\* twitter_monitor.get_user_tweets(username): the posts of the account
\* that are not yet stored under its username, newest first
get_user_tweets(S, table, u, fault) == SortDesc(S \ get_existing_tweet_ids(table, u, fault))

\* the posts of new_tweets whose local_media is not empty, for which
\* step 4 calls import_tweet_images
WithMedia(list) == { list[i] : i \in { j \in DOMAIN list : LocalMedia(list[j]) # << >> } }

\* event detection runs for the account
event_detection_enabled ==
  event_detection_globally_enabled /\ account.event_detection_enabled

\* a log-only account, from get_user_tweets to the hand-over to the
\* uploader: `continue` when nothing was fetched, else
\* _process_log_only_account: filter_log_only_tweets, save_log_only_tweets
\* and the start of process_tweets
ProcessLogOnlyAccount ==
  /\ pc = "loop" /\ acct <= Len(accounts) /\ IsLogOnly(account)
  /\ \E S \in SUBSET PostIds, f0 \in FaultChoices, f1 \in FaultChoices, f2 \in FaultChoices :
       LET fetched == get_user_tweets(S, all_tweets, username, f0)
           new == filter_new_tweets(fetched, log_only_tweets, f1)
       IN  /\ Count(f0) + Count(f1) + Count(f2) + db_faults <= MaxDbFaults
           /\ (fetched = << >>) => ~f1
           /\ (new = << >>) => ~f2
           /\ new_tweets' = new
           /\ IF new = << >>
              THEN /\ pc' = "next"
                   /\ UNCHANGED << log_only_tweets, archive >>
              ELSE /\ log_only_tweets' = save_log_only_tweets(log_only_tweets, new, username, f2)
                   /\ IF log_only_uploader_enabled
                      THEN /\ archive' = SyncFromBackupManager(archive)
                           /\ pc' = "log_upload"
                      ELSE /\ pc' = "next"
                           /\ UNCHANGED archive
           /\ db_faults' = db_faults + Count(f0) + Count(f1) + Count(f2)
  /\ idx' = 1
  /\ UNCHANGED << config_vars, all_tweets, event_tweets, pass, pass_result, acct,
                  event_list, archived, notify_log, hydrus_log, log_media,
                  uvars, dvars, xvars >>

\* one iteration of the loop of LogOnlyHFUploader.process_tweets: the
\* media of a post are downloaded into the temporary directory and
\* uploaded; on success its row is updated.  After the last iteration the
\* `with tempfile.TemporaryDirectory()` block ends, which removes the
\* directory and every file in it
LogOnlyUpload ==
  /\ pc = "log_upload" /\ idx <= Len(new_tweets)
  /\ LET t == new_tweets[idx]
         last == idx + 1 > Len(new_tweets)
     IN  IF HasMedia(t)
         THEN \E env \in StageEnvs :
                LET r == LOUploadWithRetry(archive, env)
                IN  /\ r.st.writes <= MaxRotations
                    /\ archive' = r.st
                    /\ log_only_tweets' =
                         IF r.result = "ok"
                         THEN update_log_only_tweet_hf_urls(log_only_tweets, t)
                         ELSE log_only_tweets
                    /\ log_media' =
                         [ temp_dir |-> IF last THEN {} ELSE log_media.temp_dir \cup {t},
                           failed   |-> IF r.result = "ok" THEN log_media.failed
                                        ELSE log_media.failed \cup {t} ]
         ELSE /\ UNCHANGED << archive, log_only_tweets >>
              /\ log_media' = [ log_media EXCEPT !.temp_dir = IF last THEN {} ELSE @ ]
  /\ idx' = idx + 1
  /\ pc' = IF idx + 1 > Len(new_tweets) THEN "next" ELSE "log_upload"
  /\ UNCHANGED << config_vars, all_tweets, event_tweets, db_faults, pass, pass_result,
                  acct, new_tweets, event_list, archived,
                  notify_log, hydrus_log, uvars, dvars, xvars >>

\* a normal account, from get_user_tweets to step 4: `continue` when
\* nothing was fetched; step 1, filter_new_tweets unless force_full_fetch,
\* and `continue` when nothing is new; step 2, media download; step 3,
\* save_all_tweets (its return value is only logged); step 4, when hydrus
\* takes every post, import_tweet_images for each post with media (its
\* exceptions are logged)
FetchAndSaveAllTweets ==
  /\ pc = "loop" /\ acct <= Len(accounts) /\ ~IsLogOnly(account)
  /\ \E S \in SUBSET PostIds, f0 \in FaultChoices, f1 \in FaultChoices, f2 \in FaultChoices :
       LET fetched == get_user_tweets(S, all_tweets, username, f0)
           new == IF force_full_fetch THEN fetched
                  ELSE filter_new_tweets(fetched, all_tweets, f1)
       IN  /\ Count(f0) + Count(f1) + Count(f2) + db_faults <= MaxDbFaults
           /\ (fetched = << >> \/ force_full_fetch) => ~f1
           /\ (new = << >>) => ~f2
           /\ new_tweets' = new
           /\ db_faults' = db_faults + Count(f0) + Count(f1) + Count(f2)
           /\ IF new = << >>
              THEN /\ pc' = "next"
                   /\ UNCHANGED << all_tweets, hydrus_log >>
              ELSE /\ all_tweets' = save_all_tweets(all_tweets, new, username, f2)
                   /\ hydrus_log' = IF hydrus_mode = "all"
                                    THEN hydrus_log \cup WithMedia(new)
                                    ELSE hydrus_log
                   /\ pc' = IF event_detection_enabled THEN "detect" ELSE "archive"
  /\ UNCHANGED << config_vars, event_tweets, log_only_tweets, archive, pass, pass_result,
                  acct, event_list, idx, archived, notify_log, log_media,
                  uvars, dvars, xvars >>

\* step 5, first half: detect_event_tweets(new_tweets); `continue` when it
\* returns nothing, else save_event_tweets
DetectEventTweets ==
  /\ pc = "detect"
  /\ \E answers \in [ 1..Len(new_tweets) -> ModelAnswers ] :
       LET found == detect_event_tweets(new_tweets, answers)
       IN  /\ event_list' = found
           /\ IF found = << >>
              THEN /\ pc' = "next"
                   /\ UNCHANGED << all_tweets, event_tweets, db_faults >>
              ELSE \E f \in FaultChoices :
                     LET saved == save_event_tweets(event_tweets, all_tweets, found, username, f)
                     IN  /\ event_tweets' = saved.events
                         /\ all_tweets' = saved.alls
                         /\ db_faults' = db_faults + Count(f)
                         /\ pc' = "notify"
  /\ UNCHANGED << config_vars, log_only_tweets, archive, pass, pass_result, acct,
                  new_tweets, idx, archived, notify_log, hydrus_log, log_media,
                  uvars, dvars, xvars >>

\* the posts of event_list[1..k] whose local_media is not empty
MediaOfFirst(list, k) == { list[i].id : i \in { j \in 1..k : LocalMedia(list[j].id) # << >> } }

\* step 5, second half: the notification loop.  send_notification raises
\* on a failed webhook call and the loop has no handler, so the exception
\* leaves the account loop: run_once logs it and re-raises.  After each
\* notification, import_tweet_images when hydrus takes event posts only
\* (its exceptions are logged).  failed_at = 0: no call fails
Notify ==
  /\ pc = "notify"
  /\ \E failed_at \in 0..Len(event_list) :
       LET calls == IF failed_at = 0 THEN Len(event_list) ELSE failed_at
           done  == IF failed_at = 0 THEN Len(event_list) ELSE failed_at - 1
       IN  /\ notify_log' = notify_log \cup { event_list[i].id : i \in 1..calls }
           /\ hydrus_log' = IF hydrus_mode = "events"
                            THEN hydrus_log \cup MediaOfFirst(event_list, done)
                            ELSE hydrus_log
           /\ IF failed_at = 0
              THEN pc' = "archive" /\ UNCHANGED pass_result
              ELSE pc' = "idle" /\ pass_result' = "raised"
  /\ UNCHANGED << config_vars, db_vars, db_faults, archive, pass, acct,
                  new_tweets, event_list, idx, archived, log_media, uvars, dvars, xvars >>

\* step 6: with archival enabled, backup_tweets(new_tweets); its failure
\* is logged
Archive ==
  /\ pc = "archive"
  /\ IF backup_enabled
     THEN \E c \in BOOLEAN, uploads \in [ 1..Len(new_tweets) -> StageEnvs ] :
            LET st == backup_tweets(archive, new_tweets, c, uploads)
            IN  /\ st.writes <= MaxRotations
                /\ archive' = st
                /\ archived' = TRUE
     ELSE UNCHANGED << archive, archived >>
  /\ pc' = "next"
  /\ UNCHANGED << config_vars, db_vars, db_faults, pass, pass_result, acct,
                  new_tweets, event_list, idx, notify_log, hydrus_log, log_media,
                  uvars, dvars, xvars >>

\* the end of one iteration of the account loop
NextAccount ==
  /\ pc = "next"
  /\ acct' = acct + 1
  /\ ResetAccountVars
  /\ pc' = "loop"
  /\ UNCHANGED << config_vars, db_vars, db_faults, archive, pass, pass_result,
                  notify_log, hydrus_log, uvars, dvars, xvars >>

\* after the loop: cleanup, then step 7, upload_database_backup (plain
\* upload_file calls, whose failure is logged)
FinishPass ==
  /\ pc = "loop" /\ acct > Len(accounts)
  /\ pc' = "idle" /\ pass_result' = "completed"
  /\ UNCHANGED << config_vars, db_vars, db_faults, archive, pass, acct, new_tweets,
                  event_list, idx, archived, notify_log, hydrus_log, log_media,
                  uvars, dvars, xvars >>

Next ==
  \/ StartPass
  \/ ProcessLogOnlyAccount
  \/ LogOnlyUpload
  \/ FetchAndSaveAllTweets
  \/ DetectEventTweets
  \/ Notify
  \/ Archive
  \/ NextAccount
  \/ FinishPass

Spec == Init /\ [][Next]_vars

(***************************************************************************)
(* One call of an upload retry routine, for every behaviour of the service *)
(***************************************************************************)
\* the greatest suffix of the repository configured at start-up
MaxSuffix == 1

InitUpload ==
  /\ RunIdle /\ DetectIdle /\ ExtraIdle
  /\ u_pc = "ready" /\ u_routine = "none"
  /\ u_start \in { InitialArchive(n) : n \in 0..MaxSuffix }
  /\ u_skip \in BOOLEAN
  /\ u_env \in Envs
  /\ u_run = NewRun(u_start)

\* BackupManager._upload_with_retry(**kwargs)
CallBMUploadWithRetry ==
  /\ u_pc = "ready"
  /\ u_run' = _upload_with_retry(u_start, u_env, u_skip)
  /\ u_routine' = "BackupManager._upload_with_retry" /\ u_pc' = "done"
  /\ UNCHANGED << u_start, u_skip, u_env, rvars, dvars, xvars >>

\* BackupManager._upload_file_with_retry(file_path, file_type)
CallBMUploadFileWithRetry ==
  /\ u_pc = "ready"
  /\ u_run' = _upload_file_with_retry(u_start, u_env)
  /\ u_routine' = "BackupManager._upload_file_with_retry" /\ u_pc' = "done"
  /\ UNCHANGED << u_start, u_skip, u_env, rvars, dvars, xvars >>

\* LogOnlyHFUploader._upload_with_retry(upload_path, hf_path)
CallLOUploadWithRetry ==
  /\ u_pc = "ready"
  /\ u_run' = LOUploadWithRetry(u_start, u_env)
  /\ u_routine' = "LogOnlyHFUploader._upload_with_retry" /\ u_pc' = "done"
  /\ UNCHANGED << u_start, u_skip, u_env, rvars, dvars, xvars >>

NextUpload ==
  \/ CallBMUploadWithRetry
  \/ CallBMUploadFileWithRetry
  \/ CallLOUploadWithRetry

SpecUpload == InitUpload /\ [][NextUpload]_vars

(***************************************************************************)
(* One call of detect_event_tweets, for every list of posts and every     *)
(* answer of the models                                                    *)
(***************************************************************************)
\* the posts handed to detect_event_tweets have the ids 1..MaxDetectId:
\* every kind of text occurs
MaxDetectId == 4

InitDetect ==
  /\ RunIdle /\ UploadIdle /\ ExtraIdle
  /\ d_pc = "ready"
  /\ d_tweets \in { SortDesc(S) : S \in SUBSET (1..MaxDetectId) }
  /\ d_answers \in [ 1..Len(d_tweets) -> ModelAnswers ]
  /\ d_result = << >>

CallDetectEventTweets ==
  /\ d_pc = "ready"
  /\ d_result' = detect_event_tweets(d_tweets, d_answers)
  /\ d_pc' = "done"
  /\ UNCHANGED << d_tweets, d_answers, rvars, uvars, xvars >>

NextDetect == CallDetectEventTweets

SpecDetect == InitDetect /\ [][NextDetect]_vars

(***************************************************************************)
(* One call of a crawl routine, for every timeline and every content of   *)
(* all_tweets                                                              *)
(***************************************************************************)
\* timelines hold the ids 1..MaxFeedId, at most MaxFeedLen entries; the
\* ids 1..MaxStoredId may be stored already
MaxFeedId == 3
MaxFeedLen == 6
MaxStoredId == 2

Feeds == UNION { [ 1..n -> 1..MaxFeedId ] : n \in 0..MaxFeedLen }

\* all_tweets with each of the ids 1..MaxStoredId absent or stored under
\* one of the two accounts
CrawlTables ==
  { SelectSeq([ i \in 1..MaxStoredId |-> AllTweets(i, own[i]) ], LAMBDA r : r.username # "")
      : own \in [ 1..MaxStoredId -> {"", "alice", "bob"} ] }

InitCrawl ==
  /\ RunIdle /\ UploadIdle /\ DetectIdle /\ GeminiIdle /\ NotifierIdle /\ PipelineIdle /\ LaterIdle
  /\ c_pc = "ready" /\ c_routine = "none"
  /\ c_feed \in Feeds
  /\ c_table \in CrawlTables
  /\ c_user \in {"alice", "bob"}
  /\ c_force \in BOOLEAN
  /\ c_result = [ walked |-> FALSE, tweets |-> << >> ]

\* TwitterMonitor.get_user_tweets(username, force_full_fetch)
CallGetUserTweets ==
  /\ c_pc = "ready"
  /\ c_result' = GetUserTweets(c_feed, c_table, c_user, c_force)
  /\ c_routine' = "get_user_tweets" /\ c_pc' = "done"
  /\ UNCHANGED << c_feed, c_table, c_user, c_force, rvars, uvars, dvars, gvars, nvars, pvars, zvars >>

\* TwitterMonitor._get_user_tweets_twscrape_internal(username, force_full_fetch)
CallGetUserTweetsTwscrapeInternal ==
  /\ c_pc = "ready"
  /\ c_result' = _get_user_tweets_twscrape_internal(c_feed, c_table, c_user, c_force)
  /\ c_routine' = "_get_user_tweets_twscrape_internal" /\ c_pc' = "done"
  /\ UNCHANGED << c_feed, c_table, c_user, c_force, rvars, uvars, dvars, gvars, nvars, pvars, zvars >>

NextCrawl ==
  \/ CallGetUserTweets
  \/ CallGetUserTweetsTwscrapeInternal

SpecCrawl == InitCrawl /\ [][NextCrawl]_vars

(***************************************************************************)
(* The Gemini throttle over time: calls of _analyze_with_llm for one      *)
(* Gemini model name, and the clock                                       *)
(***************************************************************************)
\* the clock advances in steps of GeminiTimeStep seconds up to
\* MaxGeminiTime; at most MaxSent requests are issued at one instant
GeminiTimeStep == 30
MaxGeminiTime == 120
MaxSent == 16

InitGemini ==
  /\ RunIdle /\ UploadIdle /\ DetectIdle /\ CrawlIdle /\ NotifierIdle /\ PipelineIdle /\ LaterIdle
  /\ g_now = 0 /\ gemini_quota = [ count |-> 0, reset |-> 0 ]
  /\ g_sent = << 0, 0 >> /\ g_result = "none"

\* _analyze_with_llm(tweet, model_name) for the Gemini model
CallAnalyzeWithGemini ==
  /\ g_sent[2] < MaxSent
  /\ \E outcome \in GeminiOutcomes :
       LET a == AnalyzeWithGemini(gemini_quota, g_now, outcome)
       IN  /\ gemini_quota' = a.q
           /\ g_sent' = << g_sent[1], g_sent[2] + a.sent >>
           /\ g_result' = IF a.sent = 0 THEN "declined" ELSE a.result
  /\ UNCHANGED << g_now, rvars, uvars, dvars, cvars, nvars, pvars, zvars >>

\* time passes
GeminiTick ==
  /\ g_now + GeminiTimeStep <= MaxGeminiTime
  /\ g_now' = g_now + GeminiTimeStep
  /\ g_sent' = << g_sent[2], 0 >>
  /\ UNCHANGED << gemini_quota, g_result, rvars, uvars, dvars, cvars, nvars, pvars, zvars >>

NextGemini ==
  \/ CallAnalyzeWithGemini
  \/ GeminiTick

SpecGemini == InitGemini /\ [][NextGemini]_vars

(***************************************************************************)
(* The send operations of DiscordNotifier over time                       *)
(***************************************************************************)
\* the clock is explored up to MaxNotifierTime; between two operations
\* MinPause or request_delay tenths of a second pass
MaxNotifierTime == 20
MinPause == 1

\* DiscordNotifier.__init__: last_request_time = 0; the process starts
\* later than request_delay after the epoch
InitNotifier ==
  /\ RunIdle /\ UploadIdle /\ DetectIdle /\ CrawlIdle /\ GeminiIdle /\ PipelineIdle /\ LaterIdle
  /\ n_now = request_delay
  /\ n_enabled \in BOOLEAN
  /\ notifier = [ last_request_time |-> 0, rate_limit_delay |-> 0 ]
  /\ n_run = NoRun

\* the time of the last webhook call so far
LastCall == IF n_run.calls # << >> THEN n_run.calls[Len(n_run.calls)] ELSE n_run.prev

\* a send operation op whose result is r
Sent(op, first, retry, r) ==
  /\ r.now <= MaxNotifierTime
  /\ notifier' = r.n
  /\ n_now' = r.now
  /\ n_run' = [ op |-> op, first |-> first, retry |-> retry, prev |-> LastCall,
                calls |-> r.calls, raised |-> r.raised ]
  /\ UNCHANGED << n_enabled, rvars, uvars, dvars, cvars, gvars, pvars, zvars >>

CallSendNotification ==
  \E first \in Responses, retry \in Responses :
    /\ (first.status # 429) => retry = Raises
    /\ Sent("send_notification", first, retry,
            send_notification(notifier, n_enabled, n_now, first, retry))

CallSendBatchNotification ==
  \E first \in Responses, retry \in Responses :
    /\ (first.status # 429) => retry = Raises
    /\ Sent("send_batch_notification", first, retry,
            send_batch_notification(notifier, n_enabled, n_now, first, retry))

CallSendErrorNotification ==
  \E first \in Responses :
    Sent("send_error_notification", first, Raises,
         send_error_notification(notifier, n_enabled, n_now, first))

CallTestWebhook ==
  \E first \in Responses :
    Sent("test_webhook", first, Raises,
         test_webhook(notifier, n_enabled, n_now, first))

\* time passes between two operations
NotifierPause ==
  /\ \E d \in {MinPause, request_delay} :
       /\ n_now + d <= MaxNotifierTime
       /\ n_now' = n_now + d
  /\ UNCHANGED << n_enabled, notifier, n_run, rvars, uvars, dvars, cvars, gvars, pvars, zvars >>

NextNotifier ==
  \/ CallSendNotification
  \/ CallSendBatchNotification
  \/ CallSendErrorNotification
  \/ CallTestWebhook
  \/ NotifierPause

SpecNotifier == InitNotifier /\ [][NextNotifier]_vars

(***************************************************************************)
(* Steps 1 to 5 of run_once for one normal account with event detection   *)
(* enabled, for every list get_user_tweets may be made to return (the     *)
(* same post twice included), without database errors.  Step 2 leaves     *)
(* local_media empty, so step 4 imports nothing                           *)
(***************************************************************************)
\* the posts fed: two whose text passes the keyword check and one whose
\* text does not; at most MaxFed posts per run
MaxFedId == 3
MaxFed == 2
FedLists ==
  UNION { [ 1..n -> 1..MaxFedId ] : n \in 1..MaxFed }

\* the account processed
PipelineUser == "alice"

InitPipeline ==
  /\ RunIdle /\ UploadIdle /\ DetectIdle /\ CrawlIdle /\ GeminiIdle /\ NotifierIdle /\ LaterIdle
  /\ p_pc = "step1"
  /\ p_force \in BOOLEAN
  /\ p_tweets \in FedLists
  /\ p_all \in { << >>, << AllTweets(1, PipelineUser) >> }
  /\ p_new = << >> /\ p_events = << >> /\ p_answers = << >>
  /\ p_event_list = << >> /\ p_notified = << >> /\ p_raised = FALSE

\* step 1; `continue` when nothing is new
PipelineFilter ==
  /\ p_pc = "step1"
  /\ p_new' = Step1NewTweets(p_tweets, p_all, p_force)
  /\ p_pc' = IF p_new' = << >> THEN "done" ELSE "step3"
  /\ UNCHANGED << p_force, p_tweets, p_all, p_events, p_answers, p_event_list,
                  p_notified, p_raised, rvars, uvars, dvars, cvars, gvars, nvars, zvars >>

\* step 3: save_all_tweets(new_tweets, username)
PipelineSaveAll ==
  /\ p_pc = "step3"
  /\ p_all' = save_all_tweets(p_all, p_new, PipelineUser, FALSE)
  /\ p_pc' = "step5"
  /\ UNCHANGED << p_force, p_tweets, p_new, p_events, p_answers, p_event_list,
                  p_notified, p_raised, rvars, uvars, dvars, cvars, gvars, nvars, zvars >>

\* step 5: detect_event_tweets(new_tweets); `continue` when it returns
\* nothing, else save_event_tweets(event_tweets, username)
PipelineDetect ==
  /\ p_pc = "step5"
  /\ \E answers \in [ 1..Len(p_new) -> ModelAnswers ] :
       LET found == detect_event_tweets(p_new, answers)
           saved == save_event_tweets(p_events, p_all, found, PipelineUser, FALSE)
       IN  /\ p_answers' = answers
           /\ p_event_list' = found
           /\ IF found = << >>
              THEN p_pc' = "done" /\ UNCHANGED << p_events, p_all >>
              ELSE p_pc' = "notify" /\ p_events' = saved.events /\ p_all' = saved.alls
  /\ UNCHANGED << p_force, p_tweets, p_new, p_notified, p_raised,
                  rvars, uvars, dvars, cvars, gvars, nvars, zvars >>

\* step 5, the notification loop: send_notification for each post of
\* event_tweets; a call that raises ends the loop.  failed_at = 0: no
\* call raises
PipelineNotify ==
  /\ p_pc = "notify"
  /\ \E failed_at \in 0..Len(p_event_list) :
       LET calls == IF failed_at = 0 THEN Len(p_event_list) ELSE failed_at
       IN  /\ p_notified' = [ i \in 1..calls |-> p_event_list[i].id ]
           /\ p_raised' = (failed_at # 0)
  /\ p_pc' = "done"
  /\ UNCHANGED << p_force, p_tweets, p_new, p_all, p_events, p_answers, p_event_list,
                  rvars, uvars, dvars, cvars, gvars, nvars, zvars >>

NextPipeline ==
  \/ PipelineFilter
  \/ PipelineSaveAll
  \/ PipelineDetect
  \/ PipelineNotify

SpecPipeline == InitPipeline /\ [][NextPipeline]_vars

(***************************************************************************)
(* One BackupManager operation that needs the repository, for a           *)
(* repository that exists or is missing and a service that accepts or     *)
(* refuses create_repo                                                     *)
(***************************************************************************)
RepoRest == << rvars, uvars, dvars, cvars, gvars, nvars, pvars, svars, wvars, tvars, mvars,
  evars, ivars, qvars, lvars >>

\* the sweeps without posts from the database
FileSweeps ==
  { NoSweep }
  \cup { [ create_ok |-> c, db_posts |-> << >>, db_uploads |-> << >>, files |-> << e >> ]
           : c \in BOOLEAN, e \in StageEnvs }

\* the configured repository exists, or it does not (it was deleted, or a
\* rotation could not create it)
RepoStates ==
  { InitialArchive(n) : n \in 0..MaxSuffix }
  \cup { [ InitialArchive(n) EXCEPT !.repos = {} ] : n \in 0..MaxSuffix }

InitRepo ==
  /\ EarlierIdle /\ SaveIdle /\ SweepIdle /\ WalkIdle /\ DownloadIdle
  /\ PassesIdle /\ LogOnlyIdle
  /\ EncryptIdle /\ ReimportIdle
  /\ k_pc = "ready" /\ k_op = "none"
  /\ k_start \in RepoStates
  /\ k_sweep \in FileSweeps
  /\ k_result = [ st |-> k_start, ensure_raised |-> FALSE, raised |-> FALSE ]

\* backup_tweets(new_tweets) with archival enabled
CallBackupTweets ==
  /\ k_pc = "ready"
  /\ \E t \in PostIds :
       k_result' = BackupTweetsCall(k_start, << t >>, k_sweep.create_ok, << >>)
  /\ k_op' = "backup_tweets" /\ k_pc' = "done"
  /\ UNCHANGED << k_start, k_sweep, RepoRest >>

\* upload_remaining_media() with archival enabled
CallUploadRemainingMedia ==
  /\ k_pc = "ready"
  /\ k_result' = UploadRemainingMediaCall(k_start, k_sweep)
  /\ k_result'.st.writes <= MaxRotations
  /\ k_op' = "upload_remaining_media" /\ k_pc' = "done"
  /\ UNCHANGED << k_start, k_sweep, RepoRest >>

NextRepo ==
  \/ CallBackupTweets
  \/ CallUploadRemainingMedia

SpecRepo == InitRepo /\ [][NextRepo]_vars

(***************************************************************************)
(* The plain sweep of the images directory in successive runs; the files  *)
(* stay in the directory                                                   *)
(***************************************************************************)
\* the directory holds the files 1..MaxSweepFiles; MaxSweeps sweeps are made
MaxSweepFiles == 3
MaxSweeps == 3
\* the sweeps rotate the repository at most MaxSweepRotations times
MaxSweepRotations == 2
SweepFiles == [ i \in 1..MaxSweepFiles |-> i ]

SweepRest == << rvars, uvars, dvars, cvars, gvars, nvars, pvars, svars, kvars, tvars, mvars,
  evars, ivars, qvars, lvars >>

InitSweep ==
  /\ EarlierIdle /\ SaveIdle /\ RepoIdle /\ WalkIdle /\ DownloadIdle
  /\ PassesIdle /\ LogOnlyIdle
  /\ EncryptIdle /\ ReimportIdle
  /\ w_pc = "ready" /\ w_sweeps = 0
  /\ w_archive \in { InitialArchive(n) : n \in 0..MaxSuffix }
  /\ w_rows \in SUBSET (1..MaxSweepFiles)
  /\ w_urls = [ f \in 1..MaxSweepFiles |-> {} ]
  /\ w_before = w_urls
  /\ w_uploaded = {}

\* _upload_plain_images(images_dir) of one run
RunUploadPlainImages ==
  /\ w_sweeps < MaxSweeps
  /\ \E envs \in [ 1..MaxSweepFiles -> StageEnvs ] :
       LET x == _upload_plain_images(w_archive, w_rows, w_urls, SweepFiles, envs)
       IN  /\ x.st.writes <= MaxSweepRotations
           /\ w_archive' = x.st
           /\ w_urls' = x.urls
           /\ w_uploaded' = x.uploaded
  /\ w_before' = w_urls
  /\ w_sweeps' = w_sweeps + 1
  /\ w_pc' = "swept"
  /\ UNCHANGED << w_rows, SweepRest >>

NextSweep == RunUploadPlainImages

SpecSweep == InitSweep /\ [][NextSweep]_vars

(***************************************************************************)
(* The walk of one crawl pass, for every pattern of fetch durations,      *)
(* fetch timeouts and timeline ends                                        *)
(***************************************************************************)
\* a fetch that returns takes one of FetchTimes; elapsed time is recorded
\* up to MaxElapsed and the firings of the overall check up to MaxFired
FetchTimes == {1, 5}
MaxElapsed == 80
MaxFired == 2

WalkRest == << rvars, uvars, dvars, cvars, gvars, nvars, pvars, svars, kvars, wvars, mvars,
  evars, ivars, qvars, lvars >>

Capped(x, max) == IF x > max THEN max ELSE x

\* start_time = time.time(); _tweet_retry_count is what the last pass left
InitWalk ==
  /\ EarlierIdle /\ SaveIdle /\ RepoIdle /\ SweepIdle /\ DownloadIdle
  /\ PassesIdle /\ LogOnlyIdle
  /\ EncryptIdle /\ ReimportIdle
  /\ t_pc = "walking"
  /\ t_alias \in BOOLEAN
  /\ t_elapsed = 0
  /\ t_retry \in 0..MaxTweetRetries
  /\ t_fired = 0

WalkState == [ elapsed |-> t_elapsed, retry |-> t_retry, fired |-> t_fired ]

WalkTo(w) ==
  /\ t_elapsed' = Capped(w.elapsed, MaxElapsed)
  /\ t_retry' = w.retry
  /\ t_fired' = Capped(w.fired, MaxFired)

\* an iteration whose fetch returns a post
WalkItem ==
  /\ t_pc = "walking"
  /\ \E d \in FetchTimes : WalkTo(WalkFetchReturns(WalkState, d, t_alias))
  /\ UNCHANGED << t_pc, t_alias, WalkRest >>

\* an iteration whose fetch times out
WalkTimeout ==
  /\ t_pc = "walking"
  /\ WalkTo(WalkFetchTimesOut(WalkState))
  /\ UNCHANGED << t_pc, t_alias, WalkRest >>

\* StopAsyncIteration, or a `break` on a known or old post
WalkEnd ==
  /\ t_pc = "walking"
  /\ t_pc' = "done"
  /\ UNCHANGED << t_alias, t_elapsed, t_retry, t_fired, WalkRest >>

NextWalk ==
  \/ WalkItem
  \/ WalkTimeout
  \/ WalkEnd

SpecWalk == InitWalk /\ [][NextWalk]_vars

(***************************************************************************)
(* One call of download_media_for_tweets, for every outcome of every      *)
(* attempt                                                                 *)
(***************************************************************************)
\* the call is for the ids of a subset of 1..MaxDownloadIds; the rotator
\* has up to MaxCookies cookie files
MaxDownloadIds == 3
MaxCookies == 3

DownloadRest == << rvars, uvars, dvars, cvars, gvars, nvars, pvars, svars, kvars, wvars, tvars,
  evars, ivars, qvars, lvars >>

InitDownload ==
  /\ EarlierIdle /\ SaveIdle /\ RepoIdle /\ SweepIdle /\ WalkIdle
  /\ PassesIdle /\ LogOnlyIdle
  /\ EncryptIdle /\ ReimportIdle
  /\ m_pc = "loop"
  /\ m_cookies \in 0..MaxCookies
  /\ m_index \in 0..(IF m_cookies = 0 THEN 0 ELSE m_cookies - 1)
  /\ m_remaining \in SUBSET (1..MaxDownloadIds)
  /\ m_no_progress = 0 /\ m_done = {}
  /\ m_requested = {} /\ m_completed = {}
  /\ m_used = << 0, 0 >>

\* one iteration of the while loop: the subprocess ends, times out or
\* cannot be run; collected are the ids it downloaded files for
DownloadAttempt ==
  /\ m_pc = "loop"
  /\ m_remaining # {} /\ m_no_progress < max_no_progress
  /\ \E outcome \in {"ended", "TimeoutExpired", "Exception"}, got \in SUBSET m_remaining :
       LET collected == IF outcome = "Exception" THEN {} ELSE got
           c == get_next_cookie(m_cookies, m_index)
           d == AfterAttempt([ remaining |-> m_remaining, done |-> m_done,
                               no_progress |-> m_no_progress ], collected)
       IN  /\ (outcome = "Exception") => got = {}
           /\ m_index' = c.index
           /\ m_used' = << m_used[2], c.cookie >>
           /\ m_requested' = m_remaining
           /\ m_completed' = collected
           /\ m_remaining' = d.remaining
           /\ m_done' = d.done
           /\ m_no_progress' = d.no_progress
  /\ UNCHANGED << m_pc, m_cookies, DownloadRest >>

\* the loop condition fails: the call returns
DownloadReturn ==
  /\ m_pc = "loop"
  /\ ~(m_remaining # {} /\ m_no_progress < max_no_progress)
  /\ m_pc' = "done"
  /\ UNCHANGED << m_cookies, m_index, m_remaining, m_no_progress, m_done,
                  m_requested, m_completed, m_used, DownloadRest >>

NextDownload ==
  \/ DownloadAttempt
  \/ DownloadReturn

\* an attempt ends (the subprocess has a timeout), so the loop keeps going
SpecDownload == InitDownload /\ [][NextDownload]_vars /\ WF_vars(NextDownload)

(***************************************************************************)
(* save_all_tweets or save_log_only_tweets called twice with the same     *)
(* post list and username, without database errors                        *)
(***************************************************************************)
\* the lists hold at most MaxSaved posts with ids 1..MaxSavedId, an id
\* possibly more than once
MaxSavedId == 3
MaxSaved == 3
SavedLists == UNION { [ 1..n -> 1..MaxSavedId ] : n \in 0..MaxSaved }

\* the rows present before the first call: none, or a row of post 1 that
\* another account saved and that has been processed since
RowsBefore(kind) ==
  IF kind = "all_tweets"
  THEN { << >>, << [ AllTweets(1, "bob") EXCEPT !.checked_for_event = TRUE ] >> }
  ELSE { << >>, << [ LogOnlyTweet(1, "bob") EXCEPT !.uploaded_to_hf = TRUE ] >> }

\* the tables of the other specifications are not running
SaveRest == << rvars, uvars, dvars, cvars, gvars, nvars, pvars, kvars, wvars, tvars, mvars,
  evars, ivars, qvars, lvars >>

InitSave ==
  /\ EarlierIdle /\ RepoIdle /\ SweepIdle /\ WalkIdle /\ DownloadIdle
  /\ PassesIdle /\ LogOnlyIdle
  /\ EncryptIdle /\ ReimportIdle
  /\ s_pc = "ready"
  /\ s_kind \in {"all_tweets", "log_only_tweets"}
  /\ s_tweets \in SavedLists
  /\ s_user \in {"alice", "bob"}
  /\ s_table \in RowsBefore(s_kind)
  /\ s_first = << >> /\ s_saved = << >>

\* save_all_tweets(tweets, username) / save_log_only_tweets(tweets,
\* username): the rows after the call; the call returns saved_count, the
\* number of rows it added
SaveCall(kind, table, tweets, u) ==
  IF kind = "all_tweets" THEN save_all_tweets(table, tweets, u, FALSE)
  ELSE save_log_only_tweets(table, tweets, u, FALSE)

CallSaveOnce ==
  /\ s_pc = "ready"
  /\ s_table' = SaveCall(s_kind, s_table, s_tweets, s_user)
  /\ s_first' = s_table'
  /\ s_saved' = << Len(s_table') - Len(s_table) >>
  /\ s_pc' = "once"
  /\ UNCHANGED << s_kind, s_tweets, s_user, SaveRest >>

CallSaveAgain ==
  /\ s_pc = "once"
  /\ s_table' = SaveCall(s_kind, s_table, s_tweets, s_user)
  /\ s_saved' = Append(s_saved, Len(s_table') - Len(s_table))
  /\ s_pc' = "twice"
  /\ UNCHANGED << s_kind, s_tweets, s_user, s_first, SaveRest >>

NextSave ==
  \/ CallSaveOnce
  \/ CallSaveAgain

SpecSave == InitSave /\ [][NextSave]_vars

(***************************************************************************)
(* Properties                                                              *)
(***************************************************************************)
\* the all_tweets row of a post is flagged checked_for_event
CheckedInAllTweets(id) ==
  \E j \in DOMAIN all_tweets : all_tweets[j].id = id /\ all_tweets[j].checked_for_event

\* C1: in every reachable database state, every id of the event-posts
\* table is the id of an all-posts row whose checked_for_event is true.
C1_EventSubset ==
  \A i \in DOMAIN event_tweets : CheckedInAllTweets(event_tweets[i].id)

\* C2: no post id is stored twice in the all-posts table, whatever the
\* crawl results of the accounts were.
C2_NoDuplicateIds ==
  \A i, j \in DOMAIN all_tweets : all_tweets[i].id = all_tweets[j].id => i = j

\* C2 witness: save_all_tweets has run for an account whose new posts
\* include an id already stored under another account.
C2_Witness ==
  /\ pc \in {"detect", "archive"}
  /\ \E k \in DOMAIN new_tweets, j \in DOMAIN all_tweets :
       all_tweets[j].id = new_tweets[k] /\ all_tweets[j].username # username

\* C3: once the classifier has run over a normal account's new posts (and
\* no database operation failed), each of those posts is flagged
\* checked_for_event in the all-posts table, accepted or not.
C3_ClassifiedPostsAreChecked ==
  (pc = "notify" /\ db_faults = 0) =>
    \A k \in DOMAIN new_tweets : CheckedInAllTweets(new_tweets[k])

\* C4: a post that passes the keyword check and for which every model
\* fails is returned by detect_event_tweets with confidence 0.5.
C4_FallbackPostIsReturned ==
  d_pc = "done" =>
    \A i \in DOMAIN d_tweets :
      ( /\ _quick_keyword_check(TextOf(d_tweets[i]))
        /\ \A m \in DOMAIN d_answers[i] : d_answers[i][m] = None )
      => \E k \in DOMAIN d_result :
           d_result[k].id = d_tweets[i] /\ d_result[k].confidence = 50

\* C5: whatever a notification, tagging or archival stage raised, a pass
\* that has ended has gone through every account of the list.
C5_PassProcessesEveryAccount ==
  (pc = "idle" /\ pass_result # "none") => acct > Len(accounts)

\* C6: with archival enabled, when the iteration of a normal account with
\* new posts ends, those posts have been handed to backup_tweets, whatever
\* the classifier returned.
C6_NewPostsAreArchived ==
  ( /\ pc = "next" /\ backup_enabled
    /\ account.account_type # "log" /\ new_tweets # << >> )
  => archived

\* C7: while run_once processes a log-only account, no step writes to
\* the event-posts or all-posts table, calls the notifier or calls the
\* media-tagging import.
C7_LogOnlyIsolation ==
  [][ ( /\ pc \in {"loop", "log_upload", "next"}
        /\ acct \in DOMAIN accounts
        /\ accounts[acct].account_type = "log" )
      => UNCHANGED << event_tweets, all_tweets, notify_log, hydrus_log >> ]_vars

\* C7 witness: a log-only account has been processed: its posts are
\* stored in log_only_tweets and one of them has been uploaded.
C7_Witness ==
  /\ pc = "next" /\ account.account_type = "log" /\ new_tweets # << >>
  /\ \E j \in DOMAIN log_only_tweets :
       log_only_tweets[j].username = username /\ log_only_tweets[j].uploaded_to_hf

\* the service meets the file-count ceiling on the first two attempts,
\* accepts the third and accepts every create_repo
TwoFileLimitFailures ==
  /\ u_env.errors = << MsgFileLimit, MsgFileLimit, OK >>
  /\ \A k \in DOMAIN u_env.create_ok : u_env.create_ok[k]

\* the number a repository name counts as in a rotation
RotationSuffix(n) == IF n = 0 THEN 1 ELSE n

\* C8: an upload call whose first two attempts fail with the file-count
\* ceiling rotates exactly twice (two rewrites of the configuration file,
\* two new names, each one suffix higher than the one before) and its
\* third attempt, against the second new repository, succeeds.
C8_TwoFileLimitFailuresRotateTwice ==
  (u_pc = "done" /\ TwoFileLimitFailures) =>
    /\ u_run.result = "ok"
    /\ u_run.rotations = 2
    /\ u_run.st.writes = u_start.writes + 2
    /\ Len(u_run.tried) = 3
    /\ u_run.tried[1] = u_start.cfg
    /\ u_run.tried[2] = RotationSuffix(u_run.tried[1]) + 1
    /\ u_run.tried[3] = u_run.tried[2] + 1
    /\ u_run.st.cfg = u_run.tried[3]
    /\ u_run.st.repos = u_start.repos \cup { u_run.tried[2], u_run.tried[3] }

\* C8 witness: a call of the uploader's routine, from a repository name
\* without suffix, has met the ceiling twice and then succeeded.
C8_Witness ==
  /\ u_pc = "done" /\ TwoFileLimitFailures
  /\ u_routine = "LogOnlyHFUploader._upload_with_retry"
  /\ u_start.cfg = 0 /\ u_run.result = "ok" /\ u_run.tried = << 0, 2, 3 >>

\* one of the two archival components is about to start an upload
UploadStarts ==
  \/ pc = "archive" /\ backup_enabled /\ WithMedia(new_tweets) # {}
  \/ pc = "log_upload" /\ idx <= Len(new_tweets) /\ HasMedia(new_tweets[idx])

\* C9: after a rotation, the Backup Manager and the Log-Only Uploader hold
\* the same full_repo_name whenever one of them starts an upload.
C9_ComponentsAgreeAtUploadStart ==
  (UploadStarts /\ archive.writes > 0) => archive.bm = archive.lo

\* the routine waits on a rate-limit error
WaitsOnRateLimit ==
  ~(u_routine = "BackupManager._upload_with_retry" /\ u_skip)

\* C10: in each retry routine of both components, a rate-limit error that
\* says "retry this action in about 2 hours" makes the routine wait
\* 2*3600 + 1 seconds, and one without a duration phrase 3600 + 1 seconds.
C10_RateLimitWaits ==
  (u_pc = "done" /\ WaitsOnRateLimit) =>
    /\ u_env.errors[1] = MsgAbout2Hours =>
         (Len(u_run.slept) >= 1 /\ u_run.slept[1] = 2 * 3600 + 1)
    /\ u_env.errors[1] = MsgNoDuration =>
         (Len(u_run.slept) >= 1 /\ u_run.slept[1] = 3600 + 1)

\* the entries the quick check may look at: the first check_limit entries
\* of the timeline
Peeked == SubSeq(c_feed, 1, IF Len(c_feed) < check_limit THEN Len(c_feed) ELSE check_limit)

\* the routine ran in quick-check mode: not force_full_fetch and a latest
\* id is known for the account
QuickCheckMode ==
  /\ c_routine = "_get_user_tweets_twscrape_internal"
  /\ ~c_force /\ get_latest_tweet_id(c_table, c_user) # NoLatest

\* C11: in quick-check mode the routine ends without the full walk exactly
\* when no peeked entry has an id greater than the stored latest id; if
\* some peeked entry has a greater id the full walk is performed
C11_QuickCheckWalksWhenNewer ==
  (c_pc = "done" /\ QuickCheckMode) =>
    ( ~c_result.walked <=>
        \A i \in DOMAIN Peeked : Peeked[i] <= get_latest_tweet_id(c_table, c_user) )

\* C12: a crawl routine returns no post whose id is stored in all_tweets,
\* under whatever account
C12_SkipSetIsGlobal ==
  c_pc = "done" =>
    \A k \in DOMAIN c_result.tweets : c_result.tweets[k] \notin IdsOf(c_table)

\* C13: when process_tweets has ended for a log-only account, the local
\* copy of every media file whose upload failed is still in place
C13_FailedUploadKeepsLocalFile ==
  (pc = "next" /\ acct \in DOMAIN accounts /\ IsLogOnly(account)) =>
    log_media.failed \subseteq log_media.temp_dir

\* C20: the rows stored for the new posts of a normal account hold the
\* local paths the download produced, and with tagging of every post
\* enabled the posts with such paths were handed to import_tweet_images
C20_DownloadedPathsAreStored ==
  (pc \in {"detect", "archive"} /\ db_faults = 0) =>
    \A k \in DOMAIN new_tweets :
      /\ \A j \in DOMAIN all_tweets :
           (all_tweets[j].id = new_tweets[k] /\ all_tweets[j].username = username)
             => all_tweets[j].local_media = DownloadedPaths(new_tweets[k])
      /\ (hydrus_mode = "all" /\ DownloadedPaths(new_tweets[k]) # << >>)
           => new_tweets[k] \in hydrus_log

\* C14: the requests issued to the provider for the model within 60
\* seconds (at the previous and at the current instant of the clock, which
\* are less than 60 seconds apart) number at most 15
C14_AtMost15RequestsPerWindow ==
  (GeminiTimeStep < QuotaWindow) => g_sent[1] + g_sent[2] <= GeminiLimit

\* the webhook calls of the last operation, preceded by the call before it
CallTimes ==
  (IF n_run.prev >= 0 THEN << n_run.prev >> ELSE << >>) \o n_run.calls

\* C15: any two consecutive webhook calls, of whatever send operation and
\* automatic retries included, are at least 0.5 seconds apart
C15_CallsAreSpaced ==
  \A i \in 1..(Len(CallTimes) - 1) : CallTimes[i + 1] - CallTimes[i] >= request_delay

\* the last operation went through _execute_with_rate_limit and the
\* webhook answered its first call with the rate-limit status
RateLimited ==
  /\ n_enabled
  /\ n_run.op \in {"send_notification", "send_batch_notification"}
  /\ n_run.first.status = 429

\* C16: on a rate-limit answer the notifier makes exactly one retry, not
\* earlier than retry_after plus the margin after the first call; the
\* extra delay stays in rate_limit_delay unless the send succeeded, which
\* resets it to zero
C16_RetryAfterIsHonoured ==
  RateLimited =>
    /\ Len(n_run.calls) = 2
    /\ n_run.calls[2] - n_run.calls[1] >= n_run.first.retry_after + RetryAfterMargin
    /\ notifier.rate_limit_delay =
         IF n_run.retry.status = 200 THEN 0
         ELSE n_run.first.retry_after + RetryAfterMargin

\* C17: without a webhook endpoint send_notification,
\* send_batch_notification and send_error_notification make no webhook
\* call and raise nothing
C17_DisabledSendsAreNoOps ==
  (~n_enabled /\ n_run.op \in {"send_notification", "send_batch_notification",
                                "send_error_notification"}) =>
    (n_run.calls = << >> /\ ~n_run.raised)

\* detect_event_tweets has run on new_tweets and, when it found posts,
\* save_event_tweets has run
Classified ==
  /\ p_pc \in {"notify", "done"}
  /\ p_new # << >> /\ Len(p_answers) = Len(p_new)

\* the classifier result of the k-th post of new_tweets: what the first
\* model that answered said, None when the post did not pass the keyword
\* check or no model answered
ClassifierResult(k) ==
  IF _quick_keyword_check(TextOf(p_new[k])) THEN FirstAnswer(p_answers[k], 1) ELSE None

AcceptedCopies ==
  { k \in DOMAIN p_new :
      /\ _quick_keyword_check(TextOf(p_new[k]))
      /\ LET r == AnalysisResult(p_answers[k])
         IN  r.is_event_related /\ r.confidence >= 60 }

\* C19: with force_full_fetch, new_tweets is the fetched list itself, so a
\* post fed twice reaches classification twice and, when both copies are
\* accepted and no send fails, is notified twice, while all_tweets holds
\* one row per id
C19_ForceFullFetchSkipsFilter ==
  (p_force /\ p_pc # "step1") =>
    /\ p_new = p_tweets
    /\ (p_pc # "step3") =>
         /\ \A i \in DOMAIN p_all, j \in DOMAIN p_all : p_all[i].id = p_all[j].id => i = j
         /\ \A k \in DOMAIN p_tweets : p_tweets[k] \in IdsOf(p_all)
    /\ (Classified /\ p_pc = "done" /\ ~p_raised) =>
         /\ Len(p_notified) = Cardinality(AcceptedCopies)
         /\ \A k \in AcceptedCopies : \E i \in DOMAIN p_notified : p_notified[i] = p_tweets[k]

\* a forced run fed the same post twice: one row, two notifications
C19_Witness ==
  /\ p_force /\ p_pc = "done"
  /\ Len(p_tweets) = 2 /\ p_tweets[1] = p_tweets[2]
  /\ Cardinality({ i \in DOMAIN p_all : p_all[i].id = p_tweets[1] }) = 1
  /\ p_notified = << p_tweets[1], p_tweets[1] >>

\* the lowercased text of the i-th post handed to detect_event_tweets
LoweredText(i) == { Lower(w) : w \in TextOf(d_tweets[i]) }
HasExclude(i) == \E kw \in exclude_keywords : Lower(kw) \in LoweredText(i)
HasInclude(i) == \E kw \in keywords : Lower(kw) \in LoweredText(i)

\* C28: the keyword check rejects a text with an exclude keyword even when
\* it has an include keyword, passes a text with an include keyword and no
\* exclude keyword, and detect_event_tweets never returns a post without
\* an include keyword, whatever the models answer
C28_KeywordPreFilter ==
  d_pc = "done" =>
    \A i \in DOMAIN d_tweets :
      /\ HasExclude(i) => ~_quick_keyword_check(TextOf(d_tweets[i]))
      /\ (HasInclude(i) /\ ~HasExclude(i)) => _quick_keyword_check(TextOf(d_tweets[i]))
      /\ (~HasInclude(i) \/ HasExclude(i)) =>
           \A k \in DOMAIN d_result : d_result[k].id # d_tweets[i]

\* a call with a post that has both kinds of keyword and a post that has
\* none, every model answering that they are event posts
C28_Witness ==
  /\ d_pc = "done"
  /\ \E i \in DOMAIN d_tweets, j \in DOMAIN d_tweets :
       /\ HasExclude(i) /\ HasInclude(i)
       /\ ~HasInclude(j)
       /\ \A m \in DOMAIN models :
            /\ d_answers[i][m] = [is_event_related |-> TRUE, confidence |-> 60]
            /\ d_answers[j][m] = [is_event_related |-> TRUE, confidence |-> 60]
       /\ \A k \in DOMAIN d_result : d_result[k].id \notin {d_tweets[i], d_tweets[j]}
  /\ d_result # << >>

OnlyOtherErrors ==
  \A k \in 1..max_retries : u_env.errors[k] = MsgServerError

\* C23: an upload call whose attempts fail with other errors makes 3
\* attempts, sleeps the same short time between them and gives up without
\* raising; no upload call makes more than 3 attempts
C23_OtherErrorsRetryToCap ==
  u_pc = "done" =>
    /\ Len(u_run.tried) <= max_retries
    /\ OnlyOtherErrors =>
         /\ Len(u_run.tried) = max_retries
         /\ u_run.result = "failed"
         /\ Len(u_run.slept) = max_retries - 1
         /\ \A i \in DOMAIN u_run.slept, j \in DOMAIN u_run.slept :
              u_run.slept[i] = u_run.slept[j]

\* C24: with skip_rate_limit_wait configured, an upload call of the
\* BackupManager whose first attempt is rate-limited is abandoned: no
\* further attempt and no sleep
C24_SkipOptionAbandonsWithoutSleep ==
  ( /\ u_pc = "done" /\ u_skip
    /\ u_routine \in {"BackupManager._upload_with_retry",
                      "BackupManager._upload_file_with_retry"}
    /\ IsRateLimit(u_env.errors[1]) )
  => (Len(u_run.tried) = 1 /\ u_run.slept = << >> /\ u_run.result # "ok")

\* C25: when _ensure_repo_exists fails in a BackupManager operation, the
\* operation raises to its caller
C25_RepositoryFailureIsRaised ==
  (k_pc = "done" /\ k_result.ensure_raised) => k_result.raised

\* C26: the plain sweep uploads no file for which the row of its post
\* already recorded an archive URL, in whatever repository
C26_SweepSkipsRecordedFiles ==
  w_pc = "swept" => \A f \in w_uploaded : w_before[f] = {}

\* the longest iteration: a fetch that times out, followed by the sleep
LongestIteration == FetchTimeout + RetrySleep

\* C21: the walk stops once the 300-second budget is exceeded: it is not
\* walking after the overall check has fired, nor later than one iteration
\* past the budget; and no more than 2 individual retries are pending
C21_WalkStopsAtBudget ==
  /\ t_retry <= MaxTweetRetries
  /\ t_pc = "walking" =>
       /\ t_fired = 0
       /\ t_elapsed <= _timeout_seconds + LongestIteration

\* the bookkeeping of download_media_for_tweets after every attempt
DownloadBookkeeping ==
  /\ m_requested \cap (m_done \ m_completed) = {}
  /\ (m_used[1] # 0 /\ m_cookies > 0) => m_used[2] = (m_used[1] % m_cookies) + 1
  /\ (m_completed # {}) => m_no_progress = 0
  /\ m_no_progress <= max_no_progress
  /\ (m_pc = "done") => (m_remaining = {} \/ m_no_progress = max_no_progress)

\* C22: download_media_for_tweets terminates; each attempt asks only for
\* the ids not yet downloaded, with the next cookie of the rotation; an
\* attempt that completes an id resets the no-progress counter; the call
\* returns after 10 attempts in a row without progress
C22_DownloadTerminates ==
  /\ []DownloadBookkeeping
  /\ <>(m_pc = "done")

\* a call that completed an id, then gave up after 10 attempts in a row
\* without progress
C22_Witness ==
  /\ m_pc = "done"
  /\ m_done # {} /\ m_remaining # {}
  /\ m_no_progress = max_no_progress
  /\ m_cookies > 1

\* ---------------------------------------------------------------------
\* RcloneClient.encrypt_files_batch (src/rclone_client.py 216-359).
\* A file is its position in the order of its path relative to base_dir.
\* A ciphertext file is a number: its directory times 10 plus its name.
\* Directory 0 holds what earlier calls left behind outside the batch
\* directories, directory k + 1 is the one rclone sync writes batch_<k> to.

MaxEncFiles == 3

DefaultBatchSize == 500

BatchSizes == { 1, 2, DefaultBatchSize }

\* "subdir": eventmonitor_encrypted_files/batch_<k> exists after the sync;
\* "obscured": the outputs are below the directory under another name;
\* "elsewhere": the remote does not write below the working directory
Layouts == { "subdir", "obscured", "elsewhere" }

StaleFiles == { 1, 4 }

\* the name the crypt remote gives to the file: not ordered as the paths are
Obscure(f) == (f * 3) % 7

Output(k, f) == (k + 1) * 10 + Obscure(f)

EmptyMap == [ f \in {} |-> 0 ]

\* the orders in which rglob can list the files of S
Orderings(S) ==
  { s \in [ 1..Cardinality(S) -> S ] :
      \A i, j \in 1..Cardinality(S) : s[i] = s[j] => i = j }

RECURSIVE SortAsc(_)
SortAsc(S) ==
  IF S = {} THEN << >>
  ELSE LET m == CHOOSE x \in S : \A y \in S : x <= y
       IN  << m >> \o SortAsc(S \ { m })

NumChunks(paths, size) == (Len(paths) + size - 1) \div size

\* chunks[k], lines 230-231
ChunkOf(paths, size, k) ==
  LET last == IF (k + 1) * size < Len(paths) THEN (k + 1) * size ELSE Len(paths)
  IN  SubSeq(paths, k * size + 1, last)

\* lines 324-334: both lists sorted and zipped
SortedPairing(map, staged, listing) ==
  LET temp == SortAsc(Range(staged))
      enc  == SortAsc(Range(listing))
      at(f) == CHOOSE i \in 1..Len(temp) : temp[i] = f
  IN  [ f \in DOMAIN map \cup Range(staged) |->
          IF f \in Range(staged) THEN enc[at(f)] ELSE map[f] ]

\* lines 335-346: every staged file takes the first listed file that no
\* entry of encrypted_files has as its value
RECURSIVE FallbackLoop(_, _, _, _)
FallbackLoop(map, staged, listing, i) ==
  IF i > Len(staged) THEN map
  ELSE LET free == { j \in 1..Len(listing) : listing[j] \notin Range(map) }
       IN  IF free = {} THEN FallbackLoop(map, staged, listing, i + 1)
           ELSE LET j == CHOOSE x \in free : \A y \in free : x <= y
                IN  FallbackLoop([ f \in DOMAIN map \cup { staged[i] } |->
                                     IF f = staged[i] THEN listing[j] ELSE map[f] ],
                                 staged, listing, i + 1)

\* the mapping step without its count-mismatch branch
MapBatchSameCountOnly(map, staged, listing) ==
  IF Len(listing) = Len(staged) THEN SortedPairing(map, staged, listing)
  ELSE map

\* lines 323-346
MapBatch(map, staged, listing) ==
  IF Len(listing) = Len(staged) THEN SortedPairing(map, staged, listing)
  ELSE FallbackLoop(map, staged, listing, 1)

EncryptRest == << rvars, uvars, dvars, cvars, gvars, nvars, pvars, svars, kvars,
  wvars, tvars, mvars, ivars, qvars, lvars >>

InitEncrypt ==
  /\ EarlierIdle /\ SaveIdle /\ RepoIdle /\ SweepIdle /\ WalkIdle /\ DownloadIdle
  /\ PassesIdle /\ LogOnlyIdle
  /\ ReimportIdle
  /\ e_pc = "ready"
  /\ e_paths \in UNION { Orderings(S) : S \in SUBSET (1..MaxEncFiles) }
  /\ e_size \in BatchSizes
  /\ e_layout \in Layouts
  /\ e_disk \in SUBSET StaleFiles
  /\ e_map = EmptyMap /\ e_chunk = 0 /\ e_written = 0 /\ e_fallback = FALSE

\* lines 224-244: nothing to do for an empty list; otherwise the directory
\* is removed, and a failure of the removal is only logged
EncryptStart ==
  /\ e_pc = "ready"
  /\ IF e_paths = << >>
     THEN e_pc' = "done" /\ UNCHANGED e_disk
     ELSE /\ e_pc' = "chunks"
          /\ \E removed \in BOOLEAN : e_disk' = IF removed THEN {} ELSE e_disk
  /\ UNCHANGED << e_paths, e_size, e_layout, e_map, e_chunk, e_written,
                  e_fallback, EncryptRest >>

\* lines 246-353, one chunk: the files whose copy did not raise are staged,
\* rclone sync runs on them, the directory is listed and the entries are added
EncryptChunk ==
  /\ e_pc = "chunks" /\ e_chunk < NumChunks(e_paths, e_size)
  /\ \E copied \in SUBSET Range(ChunkOf(e_paths, e_size, e_chunk)),
        returncode \in { 0, 1 } :
       LET chunk   == ChunkOf(e_paths, e_size, e_chunk)
           staged  == SelectSeq(chunk, LAMBDA f : f \in copied)
           ran     == staged # << >> /\ returncode = 0
           outputs == IF ran /\ e_layout # "elsewhere"
                      THEN { Output(e_chunk, f) : f \in copied } ELSE {}
           disk    == e_disk \cup outputs
           found   == IF e_layout = "subdir"
                      THEN { c \in disk : c \div 10 = e_chunk + 1 } ELSE disk
       IN  /\ e_disk' = disk
           /\ e_written' = e_written + Cardinality(outputs)
           /\ IF ran /\ disk # {}
              THEN \E listing \in Orderings(found) :
                     /\ e_map' = MapBatch(e_map, staged, listing)
                     /\ e_fallback' = (e_fallback \/ Len(listing) # Len(staged))
              ELSE UNCHANGED << e_map, e_fallback >>
  /\ e_chunk' = e_chunk + 1
  /\ UNCHANGED << e_pc, e_paths, e_size, e_layout, EncryptRest >>

\* lines 358-359
EncryptReturn ==
  /\ e_pc = "chunks" /\ e_chunk = NumChunks(e_paths, e_size)
  /\ e_pc' = "done"
  /\ UNCHANGED << e_paths, e_size, e_layout, e_disk, e_map, e_chunk, e_written,
                  e_fallback, EncryptRest >>

NextEncrypt == EncryptStart \/ EncryptChunk \/ EncryptReturn

SpecEncrypt == InitEncrypt /\ [][NextEncrypt]_vars

\* C27: when encrypt_files_batch returns and the tool has written as many
\* ciphertext files below the output directory as files were passed, the
\* returned mapping has one entry for every file passed, and every
\* ciphertext file an entry names is on disk.
C27_MappingCoversBatch ==
  (e_pc = "done" /\ e_written = Len(e_paths)) =>
    /\ Cardinality(DOMAIN e_map) = Len(e_paths)
    /\ \A f \in DOMAIN e_map : e_map[f] \in e_disk

C27_Witness ==
  /\ e_pc = "done" /\ Len(e_paths) = MaxEncFiles /\ e_written = Len(e_paths)
  /\ e_fallback /\ DOMAIN e_map = Range(e_paths)

\* ---------------------------------------------------------------------
\* scripts/reimport_to_hydrus.py: the resumable re-import.
\* The rows of all_tweets that have media are the ids 1..MaxRows, in the
\* order of the query (created_at DESC); the database does not change.

MaxRows == 12

MaxReimportRuns == 2

\* i % 10 == 0, line 336
SaveEvery == 10

\* --limit, 0 when the option is absent
Limits == { 0, 1, 11 }

MediaRows == [ i \in 1..MaxRows |-> i ]

\* load_progress, lines 45-60
load_progress(file) == IF file.exists THEN file.ids ELSE {}

\* save_progress, lines 63-78, when the write succeeds
save_progress(processed_ids) == [ exists |-> TRUE, ids |-> processed_ids ]

\* get_media_records, lines 92-143: LIMIT is part of the query, the
\* processed rows are dropped from what the query returned
get_media_records(limit, skip_ids) ==
  LET rows == IF limit # 0 /\ limit < Len(MediaRows)
              THEN SubSeq(MediaRows, 1, limit) ELSE MediaRows
  IN  SelectSeq(rows, LAMBDA id : id \notin skip_ids)

ReimportRest == << rvars, uvars, dvars, cvars, gvars, nvars, pvars, svars, kvars,
  wvars, tvars, mvars, evars, qvars, lvars >>

InitReimport ==
  /\ EarlierIdle /\ SaveIdle /\ RepoIdle /\ SweepIdle /\ WalkIdle /\ DownloadIdle
  /\ PassesIdle /\ LogOnlyIdle
  /\ EncryptIdle
  /\ i_pc = "ready" /\ i_args = NoArgs /\ i_file = NoProgressFile
  /\ i_processed_ids = {} /\ i_records = << >> /\ i_pos = 0 /\ i_done = {}
  /\ i_cleared = FALSE /\ i_runs = 0

\* main, lines 245-307: the options, --reset, load_progress, the query, the
\* exit without records, and the two exits before the loop
ReimportStart ==
  /\ i_pc \in { "ready", "exited" } /\ i_runs < MaxReimportRuns
  /\ \E dry_run \in BOOLEAN, limit \in Limits, reset \in BOOLEAN,
        hydrus \in { "connected", "disabled", "no_session" } :
       LET file    == IF reset THEN NoProgressFile ELSE i_file
           ids     == load_progress(file)
           records == get_media_records(limit, ids)
       IN  /\ i_args' = [ dry_run |-> dry_run, limit |-> limit, reset |-> reset ]
           /\ i_processed_ids' = ids
           /\ i_records' = records
           /\ i_done' = IF reset \/ i_cleared THEN {} ELSE i_done
           /\ IF records = << >>
              THEN /\ i_pc' = "exited"
                   /\ i_cleared' = (ids # {} /\ limit = 0)
                   /\ i_file' = IF ids # {} /\ limit = 0 THEN NoProgressFile ELSE file
              ELSE /\ i_cleared' = FALSE
                   /\ i_file' = file
                   /\ i_pc' = IF \/ hydrus = "disabled"
                                 \/ (~dry_run /\ hydrus = "no_session")
                              THEN "exited" ELSE "loop"
  /\ i_pos' = 0
  /\ i_runs' = i_runs + 1
  /\ UNCHANGED ReimportRest

\* lines 323-349: one record of the loop
ReimportRecord ==
  /\ i_pc = "loop" /\ i_pos < Len(i_records)
  /\ LET i   == i_pos + 1
         ids == i_processed_ids \cup { i_records[i] }
     IN  /\ i_pos' = i
         /\ IF i_args.dry_run
            THEN UNCHANGED << i_processed_ids, i_done, i_file >>
            ELSE /\ i_processed_ids' = ids
                 /\ i_done' = i_done \cup { i_records[i] }
                 /\ i_file' = IF i % SaveEvery = 0 THEN save_progress(ids) ELSE i_file
  /\ UNCHANGED << i_pc, i_args, i_records, i_cleared, i_runs, ReimportRest >>

\* lines 351-364: KeyboardInterrupt or another exception inside the loop
ReimportStopped ==
  /\ i_pc = "loop" /\ i_pos < Len(i_records)
  /\ i_file' = IF i_args.dry_run THEN i_file ELSE save_progress(i_processed_ids)
  /\ i_pc' = "exited"
  /\ UNCHANGED << i_args, i_processed_ids, i_records, i_pos, i_done, i_cleared,
                  i_runs, ReimportRest >>

\* lines 366-382: after the loop processed_records equals total_records
ReimportCompleted ==
  /\ i_pc = "loop" /\ i_pos = Len(i_records)
  /\ i_file' = IF i_args.dry_run THEN i_file ELSE NoProgressFile
  /\ i_cleared' = ~i_args.dry_run
  /\ i_pc' = "exited"
  /\ UNCHANGED << i_args, i_processed_ids, i_records, i_pos, i_done, i_runs,
                  ReimportRest >>

NextReimport ==
  ReimportStart \/ ReimportRecord \/ ReimportStopped \/ ReimportCompleted

SpecReimport == InitReimport /\ [][NextReimport]_vars

\* C30: a run of the re-import that ends with its progress file deleted has
\* left no row with media unprocessed, and a run that ends in any other way
\* leaves a progress file that holds every post id processed so far.
C30_ProgressFileKeptUntilComplete ==
  i_pc = "exited" =>
    IF i_cleared THEN Range(MediaRows) \subseteq i_done
    ELSE i_done \subseteq i_file.ids

\* mark_as_notified (database.py 390-410): sets notified on the row with
\* this id, if any.  No code of the repository calls it
mark_as_notified(events, id) ==
  [ i \in DOMAIN events |->
      IF events[i].id = id THEN [ events[i] EXCEPT !.notified = TRUE ]
      ELSE events[i] ]

\* the posts for which send_notification returned without raising
SentIds ==
  LET sent == IF p_raised THEN Len(p_notified) - 1 ELSE Len(p_notified)
  IN  { p_notified[k] : k \in 1..sent }

\* C39: when the steps of run_once for an account are over, the event_tweets
\* row of every post whose notification was sent has notified = TRUE, and
\* every row with notified = TRUE is the row of a post whose notification
\* was sent.
C39_NotifiedFlagFollowsNotification ==
  p_pc = "done" =>
    \A i \in DOMAIN p_events :
      p_events[i].notified <=> p_events[i].id \in SentIds

\* the ciphertext file the sync of its chunk writes for the file f
OwnCiphertext(f) ==
  LET at == CHOOSE i \in 1..Len(e_paths) : e_paths[i] = f
  IN  Output((at - 1) \div e_size, f)

\* C36: every entry of the mapping encrypt_files_batch returns pairs a file
\* with the ciphertext file written for that file, and no ciphertext file
\* is the value of two entries.
C36_EntriesPairFileWithOwnCiphertext ==
  e_pc = "done" =>
    /\ \A f \in DOMAIN e_map : e_map[f] = OwnCiphertext(f)
    /\ \A f, g \in DOMAIN e_map : e_map[f] = e_map[g] => f = g

(***************************************************************************)
(* run_once, pass after pass, over one normal account with event          *)
(* detection enabled (main.py 107-262).  The posts of the account are the  *)
(* ids 1..MaxPassId; a pass fetches any of them.  A database operation may *)
(* raise SQLAlchemyError in any pass, detect_event_tweets may be left by   *)
(* an exception at any post, and send_notification may raise.  Passes are  *)
(* not counted: run_continuous calls run_once for ever.                    *)
(***************************************************************************)
MaxPassId == 2

MaxSentCount == 2

PassIds == 1..MaxPassId

PassUser == "alice"

PassesRest == << rvars, uvars, dvars, cvars, gvars, nvars, pvars, svars, kvars,
  wvars, tvars, mvars, evars, ivars, lvars >>

InitPasses ==
  /\ EarlierIdle /\ SaveIdle /\ RepoIdle /\ SweepIdle /\ WalkIdle /\ DownloadIdle
  /\ EncryptIdle /\ ReimportIdle /\ LogOnlyIdle
  /\ q_pc = "idle" /\ q_pass = 0
  /\ q_force \in BOOLEAN
  /\ q_all = << >> /\ q_events = << >> /\ q_new = << >> /\ q_event_list = << >>
  /\ q_classified = {}
  /\ q_sent = [ id \in PassIds |-> 0 ]

\* main.py 107-180: get_user_tweets, which leaves out the ids stored under
\* the username unless force_full_fetch; step 1; `continue` when nothing is
\* new; step 3, save_all_tweets, whose failure is logged inside
PassFetchAndSave ==
  /\ q_pc = "idle"
  /\ \E S \in SUBSET PassIds, f0 \in BOOLEAN, f1 \in BOOLEAN, f2 \in BOOLEAN :
       LET fetched == IF q_force THEN SortDesc(S)
                      ELSE get_user_tweets(S, q_all, PassUser, f0)
           new     == IF q_force THEN fetched
                      ELSE filter_new_tweets(fetched, q_all, f1)
       IN  /\ q_new' = new
           /\ IF new = << >>
              THEN UNCHANGED << q_pc, q_all >>
              ELSE /\ q_all' = save_all_tweets(q_all, new, PassUser, f2)
                   /\ q_pc' = "detect"
  /\ q_event_list' = << >>
  /\ q_pass' = 1 - q_pass
  /\ UNCHANGED << q_force, q_events, q_classified, q_sent, PassesRest >>

\* main.py 202-213: detect_event_tweets(new_tweets) and save_event_tweets.
\* raised_at = k > 0: an exception leaves the loop of detect_event_tweets
\* before it takes new_tweets[k]; run_once logs it and re-raises (257-259)
PassDetect ==
  /\ q_pc = "detect"
  /\ \E answers \in [ 1..Len(q_new) -> ModelAnswers ], raised_at \in 0..Len(q_new) :
       IF raised_at # 0
       THEN /\ q_classified' = q_classified \cup { q_new[i] : i \in 1..(raised_at - 1) }
            /\ q_pc' = "idle"
            /\ UNCHANGED << q_all, q_events, q_event_list >>
       ELSE LET found == detect_event_tweets(q_new, answers)
            IN  /\ q_classified' = q_classified \cup Range(q_new)
                /\ q_event_list' = found
                /\ IF found = << >>
                   THEN q_pc' = "idle" /\ UNCHANGED << q_all, q_events >>
                   ELSE \E f \in BOOLEAN :
                          LET saved == save_event_tweets(q_events, q_all, found, PassUser, f)
                          IN  /\ q_events' = saved.events
                              /\ q_all' = saved.alls
                              /\ q_pc' = "notify"
  /\ UNCHANGED << q_pass, q_force, q_new, q_sent, PassesRest >>

\* main.py 216-224: the notification loop; a call that raises ends the pass.
\* failed_at = 0: no call raises
PassNotify ==
  /\ q_pc = "notify"
  /\ \E failed_at \in 0..Len(q_event_list) :
       LET done == IF failed_at = 0 THEN Len(q_event_list) ELSE failed_at - 1
           n(id) == Cardinality({ i \in 1..done : q_event_list[i].id = id })
       IN  q_sent' = [ id \in PassIds |->
                         IF q_sent[id] + n(id) > MaxSentCount THEN MaxSentCount
                         ELSE q_sent[id] + n(id) ]
  /\ q_pc' = "idle"
  /\ UNCHANGED << q_pass, q_force, q_all, q_events, q_new, q_event_list,
                  q_classified, PassesRest >>

NextPasses == PassFetchAndSave \/ PassDetect \/ PassNotify

\* run_continuous keeps calling run_once
SpecPasses == InitPasses /\ [][NextPasses]_vars /\ WF_vars(NextPasses)

\* C31: a post that has a row in all_tweets is, then or later, taken by the
\* loop of detect_event_tweets, whatever ended the pass that stored it.
C31_StoredPostsAreClassified ==
  \A id \in PassIds : (id \in IdsOf(q_all)) ~> (id \in q_classified)

\* C32: with force_full_fetch off, no post has more than one notification
\* sent, whatever database errors the passes met.
C32_NoPostNotifiedTwice ==
  ~q_force => \A id \in PassIds : q_sent[id] <= 1

(***************************************************************************)
(* run_once, pass after pass, over one log-only account:                   *)
(* _process_log_only_account (main.py 332-363) and                         *)
(* LogOnlyHFUploader.process_tweets (log_only_hf_uploader.py 306-537).     *)
(* The posts are the ids 1..MaxLogId, each with two media items; the       *)
(* crawler's skip set is taken from all_tweets, which holds no log-only    *)
(* post, so a pass can fetch any of them again.                            *)
(***************************************************************************)
MaxLogId == 2

MaxLogPasses == 2

LogIds == 1..MaxLogId

LogUser == "bob"

\* tweet['media'] \o tweet['videos']: the items of the post, images first
LogMediaOf(id) == IF id % 2 = 1 THEN << "image", "image" >> ELSE << "image", "video" >>

\* what happens to one item: the status of the download, whether
\* encrypt_file returns a path, what _upload_with_retry returns
ItemEnvs == [ status : { 200, 404 }, encrypted : BOOLEAN, upload_success : BOOLEAN ]

\* one item in _process_tweet_images (370-447) or _process_tweet_videos
\* (457-535): nothing for another status than 200; with an rclone_client
\* the ciphertext is uploaded if encrypt_file returned a path, else
\* upload_path is local_path; the URL is recorded when the upload succeeded
ProcessItem(encrypt, env) ==
  IF env.status # 200
  THEN [ uploaded |-> FALSE, clear |-> FALSE, url |-> FALSE ]
  ELSE [ uploaded |-> env.upload_success,
         clear    |-> ~(encrypt /\ env.encrypted),
         url      |-> env.upload_success ]

LogOnlyRest == << rvars, uvars, dvars, cvars, gvars, nvars, pvars, svars, kvars,
  wvars, tvars, mvars, evars, ivars, qvars >>

InitLogOnly ==
  /\ EarlierIdle /\ SaveIdle /\ RepoIdle /\ SweepIdle /\ WalkIdle /\ DownloadIdle
  /\ EncryptIdle /\ ReimportIdle /\ PassesIdle
  /\ l_pc = "idle"
  /\ l_encrypt \in BOOLEAN
  /\ l_rows = << >>
  /\ l_urls = [ id \in LogIds |-> {} ]
  /\ l_fetched = << >> /\ l_new = << >> /\ l_idx = 0
  /\ l_repo = {} /\ l_failed = {} /\ l_passes = 0

\* main.py 120-139 and 332-347: get_user_tweets (`continue` when it returns
\* nothing), filter_log_only_tweets, return when nothing is new, else
\* save_log_only_tweets and the call of process_tweets
LogOnlyStartPass ==
  /\ l_pc = "idle" /\ l_passes < MaxLogPasses
  /\ \E S \in SUBSET LogIds \ { {} }, f1 \in BOOLEAN, f2 \in BOOLEAN :
       LET fetched == SortDesc(S)
           new     == filter_new_tweets(fetched, l_rows, f1)
       IN  /\ l_fetched' = fetched
           /\ l_new' = new
           /\ IF new = << >>
              THEN UNCHANGED << l_pc, l_rows >>
              ELSE /\ l_rows' = save_log_only_tweets(l_rows, new, LogUser, f2)
                   /\ l_pc' = "upload"
  /\ l_idx' = 1
  /\ l_passes' = l_passes + 1
  /\ UNCHANGED << l_encrypt, l_urls, l_repo, l_failed, LogOnlyRest >>

\* one post of the loop of process_tweets (325-361): its images, then its
\* videos; update_log_only_tweet_hf_urls when hf_urls is not empty, which
\* changes the row if there is one and no SQLAlchemyError is raised
LogOnlyProcessTweet ==
  /\ l_pc = "upload" /\ l_idx <= Len(l_new)
  /\ LET t     == l_new[l_idx]
         items == DOMAIN LogMediaOf(t)
     IN  \E envs \in [ items -> ItemEnvs ], fault \in BOOLEAN :
           LET r(k)    == ProcessItem(l_encrypt, envs[k])
               hf_urls == { k \in items : r(k).url }
               stored  == hf_urls # {} /\ ~fault /\ t \in IdsOf(l_rows)
           IN  /\ l_repo' = l_repo \cup
                    { [ id |-> t, item |-> k, clear |-> r(k).clear ] :
                        k \in { j \in items : r(j).uploaded } }
               /\ l_rows' = IF stored THEN update_log_only_tweet_hf_urls(l_rows, t)
                            ELSE l_rows
               /\ l_urls' = IF stored THEN [ l_urls EXCEPT ![t] = hf_urls ] ELSE l_urls
               /\ l_failed' = IF hf_urls = {} THEN l_failed \cup { t } ELSE l_failed
  /\ l_idx' = l_idx + 1
  /\ l_pc' = IF l_idx + 1 > Len(l_new) THEN "idle" ELSE "upload"
  /\ UNCHANGED << l_encrypt, l_fetched, l_new, l_passes, LogOnlyRest >>

NextLogOnly == LogOnlyStartPass \/ LogOnlyProcessTweet

SpecLogOnly == InitLogOnly /\ [][NextLogOnly]_vars

\* C33: in a pass that fetches a post which an earlier pass handed to the
\* uploader without getting any URL for it, and which still has no URL
\* recorded, the post is in the list handed to the uploader.
C33_FailedPostIsHandedOverAgain ==
  \A t \in Range(l_fetched) :
    (t \in l_failed /\ l_urls[t] = {}) => t \in Range(l_new)

\* C34: with an rclone_client, every object the uploader put in the
\* repository is a ciphertext.
C34_NoCleartextUpload ==
  l_encrypt => \A o \in l_repo : ~o.clear

\* C37: a row of log_only_tweets with uploaded_to_hf = TRUE has a URL
\* recorded for every media item of its post.
C37_UploadedFlagMeansEveryItem ==
  \A i \in DOMAIN l_rows :
    l_rows[i].uploaded_to_hf => l_urls[l_rows[i].id] = DOMAIN LogMediaOf(l_rows[i].id)

\* C35: after an upload call in which a rotation was attempted, the
\* full_repo_name of BackupManager, the full_repo_name of the uploader and
\* the repo_name in config.yaml each name a repository that exists.
C35_ActiveRepositoryExists ==
  (u_pc = "done" /\ u_run.st.writes > u_start.writes) =>
    /\ u_run.st.bm \in u_run.st.repos
    /\ u_run.st.lo \in u_run.st.repos
    /\ u_run.st.cfg \in u_run.st.repos

\* the wait a rate-limit message states, in seconds (0: it states none)
StatedWait(msg) ==
  CASE msg = MsgAbout2Hours   -> 2 * 3600
    [] msg = MsgIn5Minutes    -> 5 * 60
    [] msg = MsgRetryIn3Hours -> 3 * 3600
    [] OTHER                  -> 0

\* C38: a retry routine whose first attempt fails with a rate-limit error
\* that states a wait of N minutes or N hours sleeps at least N * 60 or
\* N * 3600 seconds before its next attempt.
C38_WaitCoversStatedDuration ==
  (u_pc = "done" /\ WaitsOnRateLimit /\ StatedWait(u_env.errors[1]) > 0) =>
    /\ Len(u_run.slept) >= 1
    /\ u_run.slept[1] >= StatedWait(u_env.errors[1])

=============================================================================
